---- MODULE Spec2Model ----
(***************************************************************************)
(* A model of reactfpv: the quadcopter physics engine                      *)
(* (services/dronePhysics.ts), the WebHID report decoder                   *)
(* (services/webhid.ts), the axis normalisation (normalizeInput) and the   *)
(* settings kept by the application root and edited by the settings panel. *)
(*                                                                         *)
(* Numbers.  A JavaScript number of the physics engine is a fixed-point    *)
(* integer counting 1/Unit, or the value NaN.  Every arithmetic operator   *)
(* below propagates NaN the way IEEE arithmetic does, every comparison     *)
(* with NaN is false, and products and quotients round to the nearest      *)
(* unit (ties away from zero), so that the arithmetic is symmetric in sign *)
(* as floating point is.                                                   *)
(***************************************************************************)
EXTENDS Integers, Sequences, FiniteSets, TLC

VARIABLES
    state,        \* Drone: physicsState.current, the PhysicsState
    call,         \* the arguments of the last DronePhysicsEngine.step call
    specs,        \* DronePhysicsEngine.specs
    windConfig,   \* DronePhysicsEngine.windConfig
    gustPhase,    \* DronePhysicsEngine.gustPhase
    steps,        \* number of step calls made so far
    rawChannels,  \* WebHIDController.rawChannels
    hidReport,    \* the bytes of the last input report handled
    notified,     \* the array the last report handed to the subscribers
    reports,      \* number of input reports handled so far
    axisInput,    \* normalizeInput: its arguments raw and calibration
    axisOutput,   \* normalizeInput: the ratio it computed and its result
    settings,     \* App: the eleven pieces of persisted settings state
    localStorage, \* localStorage: the item under react_fpv_settings_v1
    before,       \* the settings before the last change or reload
    settingsOp,   \* the last change made to the settings
    edits,        \* number of settings changes made so far
    activeKeys,   \* Drone: activeKeys.current, the codes of the keys held
    virtualSticks,\* Drone: virtualSticks.current
    frameLog,     \* the keys, dt and virtual throttle the last frame started with
    rampFrames,   \* frames of 1/60 s with only W held since throttle 0, or -1
    frames,       \* number of frames rendered so far
    rateCall,     \* calculateRate: its arguments and the rate it returned
    deadbandCall, \* applyDeadband: its argument and the value it returned
    vectors,      \* the THREE.Vector3 objects a wind update made or was handed
    directionRef, \* which object this.windConfig.direction is
    windCall,     \* the argument of the last updateWindConfig call
    windUpdates,  \* number of updateWindConfig calls made so far
    stateObjects, \* the Vector3 and Quaternion objects of the physics states
    stateRefs,    \* which objects physicsState.current holds
    inputRefs,    \* which objects the state passed to the last step held
    windLabel,    \* SettingsPanel: the angle and compass label of the wind direction row
    service,      \* WebHIDController: device, _isConnected and _isConnecting
    opened,       \* the HID devices whose opened flag is set
    inputListeners, \* how many inputreport listeners each device has
    hidCalls,     \* the calls of requestDevice: where each is, and how it settled
    callsMade,    \* number of requestDevice calls made so far
    hasHid,       \* whether navigator has the hid property
    controllerConnected, \* App: controllerConnected, set by the gamepad events
    hidConnected, \* App: hidConnected
    hud,          \* HUD: the status badge as last rendered
    hidChannels,  \* App: hidChannels, the channels of the last report
    wizard,       \* HIDCalibrationModal: shown or not, its step, and whether it saved
    tempCal,      \* HIDCalibrationModal: tempCal
    intervalElapsed, \* time since the auto-expand interval was set, or -1 without one
    observed,     \* per axis, the least and greatest reading since Capture Center
    quiet,        \* time since a reading last widened observed, up to one interval
    resetSignal,  \* App: resetSignal, the counter the reset handler increments
    resetLog,     \* the physics state and the virtual throttle the last reset found
    listeners,    \* WebHIDController: listeners, the subscribed callbacks
    lastReport,   \* the last input report a device sent: its handlers and the callbacks invoked
    afterDisconnect, \* whether a disconnect has completed, and the notifications since
    gamepads,     \* navigator.getGamepads(): slots 0 and 1, <<>> for null, else the axes
    padWizard,    \* CalibrationModal: shown or not, its step, whether it saved, whether it captured
    padCal,       \* CalibrationModal: tempCal
    rawAxes,      \* CalibrationModal: rawAxes
    padPress,     \* the last press of the gamepad wizard's Capture Center button
    calOpen       \* the wizard that was opened and the calibration it was given

physVars == <<state, call, specs, windConfig, gustPhase, steps>>
hidVars == <<rawChannels, hidReport, notified, reports>>
normVars == <<axisInput, axisOutput>>
settingsVars == <<settings, localStorage, before, settingsOp, edits>>
keyVars == <<activeKeys, virtualSticks, frameLog, rampFrames, frames>>
stickVars == <<rateCall, deadbandCall>>
windVars == <<vectors, directionRef, windCall, windUpdates>>
objVars == <<stateObjects, stateRefs, inputRefs>>
compassVars == <<windLabel>>
connVars == <<service, opened, inputListeners, hidCalls, callsMade, hasHid>>
hudVars == <<controllerConnected, hidConnected, hud>>
wizVars == <<hidChannels, wizard, tempCal, intervalElapsed, observed, quiet>>
resetVars == <<resetSignal, resetLog>>
subVars == <<listeners, lastReport, afterDisconnect>>
padVars == <<gamepads, padWizard, padCal, rawAxes, padPress, calOpen>>
extVars == <<keyVars, stickVars, windVars, objVars, compassVars, connVars, hudVars, wizVars, resetVars, subVars, padVars>>
\* everything but keyVars
exceptKeyVars ==
    <<physVars, hidVars, normVars, settingsVars, stickVars, windVars, objVars, compassVars, connVars, hudVars, wizVars, resetVars, subVars, padVars>>
\* everything but stickVars
exceptStickVars ==
    <<physVars, hidVars, normVars, settingsVars, keyVars, windVars, objVars, compassVars, connVars, hudVars, wizVars, resetVars, subVars, padVars>>
\* everything but windVars
exceptWindVars ==
    <<hidVars, normVars, settingsVars, keyVars, stickVars, objVars, compassVars, connVars, hudVars, wizVars, resetVars, subVars, padVars>>
\* everything but objVars
exceptObjVars ==
    <<hidVars, normVars, settingsVars, keyVars, stickVars, windVars, compassVars, connVars, hudVars, wizVars, resetVars, subVars, padVars>>
\* everything but compassVars
exceptCompassVars ==
    <<hidVars, normVars, keyVars, stickVars, windVars, objVars, connVars, hudVars, wizVars, resetVars, subVars, padVars>>
\* everything but connVars
exceptConnVars ==
    <<physVars, hidVars, normVars, settingsVars, keyVars, stickVars, windVars, objVars, compassVars, hudVars, wizVars, resetVars, subVars, padVars>>
\* everything but hudVars
exceptHudVars ==
    <<physVars, hidVars, normVars, keyVars, stickVars, windVars, objVars, compassVars, connVars, wizVars, resetVars, subVars, padVars>>
\* everything but wizVars
exceptWizVars ==
    <<physVars, hidVars, normVars, keyVars, stickVars, windVars, objVars, compassVars, connVars, hudVars, resetVars, subVars, padVars>>
\* everything but resetVars
exceptResetVars ==
    <<hidVars, normVars, keyVars, stickVars, windVars, objVars, compassVars, connVars, hudVars, wizVars, subVars, padVars>>
\* everything but subVars
exceptSubVars ==
    <<physVars, hidVars, normVars, settingsVars, keyVars, stickVars, windVars, objVars, compassVars, connVars, hudVars, wizVars, resetVars, padVars>>
\* everything but padVars
exceptPadVars ==
    <<physVars, hidVars, normVars, settingsVars, keyVars, stickVars, windVars, objVars, compassVars, connVars, hudVars, wizVars, resetVars, subVars>>
vars == <<physVars, hidVars, normVars, settingsVars, extVars>>

-----------------------------------------------------------------------------
(* Numbers *)

Unit == 1000
NaN == -2000000000

IsNaN(a) == a = NaN
Abs(a) == IF a < 0 THEN -a ELSE a
Sign(a) == IF a < 0 THEN -1 ELSE 1

\* a / b for integers, b # 0, rounded to the nearest integer
RoundDiv(a, b) ==
    Sign(a) * Sign(b) * ((Abs(a) + (Abs(b) \div 2)) \div Abs(b))

FAdd(a, b) == IF IsNaN(a) \/ IsNaN(b) THEN NaN ELSE a + b
FSub(a, b) == IF IsNaN(a) \/ IsNaN(b) THEN NaN ELSE a - b
FNeg(a) == IF IsNaN(a) THEN NaN ELSE -a
FMul(a, b) == IF IsNaN(a) \/ IsNaN(b) THEN NaN ELSE RoundDiv(a * b, Unit)
FDiv(a, b) == IF IsNaN(a) \/ IsNaN(b) THEN NaN ELSE RoundDiv(a * Unit, b)
FLt(a, b) == ~IsNaN(a) /\ ~IsNaN(b) /\ a < b
FGt(a, b) == ~IsNaN(a) /\ ~IsNaN(b) /\ a > b
\* Math.min, Math.max: NaN when either argument is NaN
FMin(a, b) == IF IsNaN(a) \/ IsNaN(b) THEN NaN ELSE IF a < b THEN a ELSE b
FMax(a, b) == IF IsNaN(a) \/ IsNaN(b) THEN NaN ELSE IF a > b THEN a ELSE b

Max2(a, b) == IF a > b THEN a ELSE b

\* the integer square root, by bisection on [lo, hi)
RECURSIVE SqrtIn(_, _, _)
SqrtIn(n, lo, hi) ==
    IF hi - lo <= 1 THEN lo
    ELSE LET mid == (lo + hi) \div 2
         IN  IF mid * mid <= n THEN SqrtIn(n, mid, hi) ELSE SqrtIn(n, lo, mid)

\* Math.sqrt of a sum of squares of fixed-point numbers: the nearest integer
ISqrt(n) ==
    LET nearest(r) == IF n - r * r > r THEN r + 1 ELSE r
    IN  nearest(SqrtIn(n, 0, 46341))

Pi == 3142

\* Math.sin of a fixed-point angle: reduction to [-Pi/2, Pi/2], then the
\* Taylor polynomial of degree 7
Sin(a) ==
    LET clamp(s) == IF s > Unit THEN Unit ELSE IF s < -Unit THEN -Unit ELSE s
        poly(r, r2, r3) ==
            clamp(r - RoundDiv(r3, 6) + RoundDiv(FMul(r3, r2), 120)
                    - RoundDiv(FMul(FMul(r3, r2), r2), 5040))
        taylor(r) == poly(r, FMul(r, r), FMul(FMul(r, r), r))
        fold(r1) == taylor(IF 2 * r1 > Pi THEN Pi - r1
                           ELSE IF 2 * r1 < -Pi THEN -Pi - r1 ELSE r1)
        wrap(r0) == fold(IF r0 > Pi THEN r0 - 2 * Pi ELSE r0)
    IN  IF IsNaN(a) THEN NaN ELSE wrap(a % (2 * Pi))

Cos(a) == IF IsNaN(a) THEN NaN ELSE Sin(a + RoundDiv(Pi, 2))

-----------------------------------------------------------------------------
(* THREE.Vector3 and THREE.Quaternion *)

Vec(x, y, z) == [x |-> x, y |-> y, z |-> z]
Quat(x, y, z, w) == [x |-> x, y |-> y, z |-> z, w |-> w]

VAdd(a, b) == Vec(FAdd(a.x, b.x), FAdd(a.y, b.y), FAdd(a.z, b.z))
VSub(a, b) == Vec(FSub(a.x, b.x), FSub(a.y, b.y), FSub(a.z, b.z))
multiplyScalar(v, s) == Vec(FMul(v.x, s), FMul(v.y, s), FMul(v.z, s))
addScaledVector(a, v, s) ==
    Vec(FAdd(a.x, FMul(v.x, s)), FAdd(a.y, FMul(v.y, s)), FAdd(a.z, FMul(v.z, s)))

VHasNaN(v) == IsNaN(v.x) \/ IsNaN(v.y) \/ IsNaN(v.z)
QHasNaN(q) == IsNaN(q.x) \/ IsNaN(q.y) \/ IsNaN(q.z) \/ IsNaN(q.w)

\* Vector3.length: sqrt(x*x + y*y + z*z).  Large vectors are scaled down
\* before squaring so that the squares fit 32-bit integers.
VLength(v) ==
    LET scaled(k, x, y, z) == k * ISqrt(x * x + y * y + z * z)
        by(k) == scaled(k, Abs(v.x) \div k, Abs(v.y) \div k, Abs(v.z) \div k)
    IN  IF VHasNaN(v) THEN NaN
        ELSE by((Max2(Abs(v.x), Max2(Abs(v.y), Abs(v.z))) \div 20000) + 1)

\* Vector3.normalize: divideScalar(length() || 1); NaN and 0 are both falsy
VNormalize(v) ==
    LET dv(c, d, k) ==
            IF IsNaN(c) THEN NaN
            ELSE RoundDiv((Sign(c) * (Abs(c) \div k)) * Unit, Max2(d \div k, 1))
        divideScalar(d) ==
            Vec(dv(v.x, d, (d \div 1000000) + 1), dv(v.y, d, (d \div 1000000) + 1),
                dv(v.z, d, (d \div 1000000) + 1))
        orOne(len) == divideScalar(IF IsNaN(len) \/ len = 0 THEN Unit ELSE len)
    IN  orOne(VLength(v))

\* v.normalize().multiplyScalar(l), the unit vector kept at full precision:
\* each component is c * l / length, rounded once
setLength(v, l) ==
    LET sc(c, d, k) ==
            IF IsNaN(c) \/ IsNaN(l) THEN NaN
            ELSE RoundDiv((Sign(c) * (Abs(c) \div k)) * l, Max2(d \div k, 1))
        scale(d, k) == Vec(sc(v.x, d, k), sc(v.y, d, k), sc(v.z, d, k))
        orOne(len) ==
            scale(IF IsNaN(len) \/ len = 0 THEN Unit ELSE len,
                  (Max2(Abs(v.x), Max2(Abs(v.y), Abs(v.z))) \div 20000) + 1)
    IN  IF VHasNaN(v) THEN multiplyScalar(VNormalize(v), l)
        ELSE orOne(VLength(v))

\* Vector3.applyQuaternion
applyQuaternion(v, q) ==
    LET rotate(tx, ty, tz) ==
            Vec(FSub(FAdd(FAdd(v.x, FMul(q.w, tx)), FMul(q.y, tz)), FMul(q.z, ty)),
                FSub(FAdd(FAdd(v.y, FMul(q.w, ty)), FMul(q.z, tx)), FMul(q.x, tz)),
                FSub(FAdd(FAdd(v.z, FMul(q.w, tz)), FMul(q.x, ty)), FMul(q.y, tx)))
    IN  rotate(FMul(2 * Unit, FSub(FMul(q.y, v.z), FMul(q.z, v.y))),
               FMul(2 * Unit, FSub(FMul(q.z, v.x), FMul(q.x, v.z))),
               FMul(2 * Unit, FSub(FMul(q.x, v.y), FMul(q.y, v.x))))

\* Quaternion.setFromAxisAngle
setFromAxisAngle(axis, angle) ==
    LET set(s, c) == Quat(FMul(axis.x, s), FMul(axis.y, s), FMul(axis.z, s), c)
        half(halfAngle) == set(Sin(halfAngle), Cos(halfAngle))
    IN  half(IF IsNaN(angle) THEN NaN ELSE RoundDiv(angle, 2))

\* Quaternion.multiply
QMultiply(a, b) ==
    Quat(FSub(FAdd(FAdd(FMul(a.x, b.w), FMul(a.w, b.x)), FMul(a.y, b.z)), FMul(a.z, b.y)),
         FSub(FAdd(FAdd(FMul(a.y, b.w), FMul(a.w, b.y)), FMul(a.z, b.x)), FMul(a.x, b.z)),
         FSub(FAdd(FAdd(FMul(a.z, b.w), FMul(a.w, b.z)), FMul(a.x, b.y)), FMul(a.y, b.x)),
         FSub(FSub(FSub(FMul(a.w, b.w), FMul(a.x, b.x)), FMul(a.y, b.y)), FMul(a.z, b.z)))

\* Quaternion.normalize: the identity when the length is 0
QNormalize(q) ==
    LET divide(l) ==
            IF l = 0 THEN Quat(0, 0, 0, Unit)
            ELSE Quat(FDiv(q.x, l), FDiv(q.y, l), FDiv(q.z, l), FDiv(q.w, l))
    IN  IF QHasNaN(q) THEN Quat(NaN, NaN, NaN, NaN)
        ELSE divide(ISqrt(q.x * q.x + q.y * q.y + q.z * q.z + q.w * q.w))

-----------------------------------------------------------------------------
(* services/dronePhysics.ts *)

GRAVITY == 9810
AIR_DENSITY == 1225

\* constants.ts DRONE_PRESETS (mass kg, maxThrust N per motor, ...)
DRONE_PRESETS ==
    [ WHOOP_65MM |->
        [mass |-> 25, maxThrust |-> 150, dragCoefficient |-> 800,
         angularDrag |-> 5000, responsiveness |-> 8000],
      WHOOP_75MM |->
        [mass |-> 35, maxThrust |-> 250, dragCoefficient |-> 900,
         angularDrag |-> 4500, responsiveness |-> 9000],
      TOOTHPICK_3IN |->
        [mass |-> 80, maxThrust |-> 1200, dragCoefficient |-> 600,
         angularDrag |-> 3500, responsiveness |-> 12000],
      FREESTYLE_5IN |->
        [mass |-> 650, maxThrust |-> 4500, dragCoefficient |-> 1000,
         angularDrag |-> 3000, responsiveness |-> 12000],
      RACE_5IN |->
        [mass |-> 450, maxThrust |-> 5500, dragCoefficient |-> 800,
         angularDrag |-> 2000, responsiveness |-> 18000],
      CINEWHOOP |->
        [mass |-> 350, maxThrust |-> 2500, dragCoefficient |-> 1500,
         angularDrag |-> 4000, responsiveness |-> 8000],
      LONG_RANGE_7IN |->
        [mass |-> 900, maxThrust |-> 6000, dragCoefficient |-> 900,
         angularDrag |-> 3500, responsiveness |-> 10000],
      X_CLASS_10IN |->
        [mass |-> 2500, maxThrust |-> 15000, dragCoefficient |-> 1200,
         angularDrag |-> 4000, responsiveness |-> 8000],
      CUSTOM |->
        [mass |-> 650, maxThrust |-> 4500, dragCoefficient |-> 1000,
         angularDrag |-> 3000, responsiveness |-> 12000] ]

\* createSpecsFromSettings: frontalArea = 0.005 + mass * 0.01
createSpecsFromSettings(s) ==
    [mass |-> s.mass,
     maxThrust |-> s.maxThrust,
     dragCoefficient |-> s.dragCoefficient,
     frontalArea |-> FAdd(5, FMul(s.mass, 10)),
     angularDrag |-> s.angularDrag,
     responsiveness |-> s.responsiveness]

\* DEFAULT_DRONE_SPECS
DEFAULT_DRONE_SPECS ==
    [mass |-> 650, maxThrust |-> 4500, dragCoefficient |-> 1000,
     frontalArea |-> 10, angularDrag |-> 3000, responsiveness |-> 12000]

\* DEFAULT_WIND_CONFIG
DEFAULT_WIND_CONFIG ==
    [enabled |-> FALSE, baseSpeed |-> 0, direction |-> Vec(Unit, 0, 0),
     gustStrength |-> 0, gustFrequency |-> 500, turbulenceScale |-> 0]

\* DronePhysicsEngine.createInitialState()
createInitialState ==
    [position |-> Vec(0, 2 * Unit, 0),
     velocity |-> Vec(0, 0, 0),
     quaternion |-> Quat(0, 0, 0, Unit),
     angularVelocity |-> Vec(0, 0, 0)]

calculateThrustTwoMotors(sp, throttle) ==
    FMul(2 * sp.maxThrust, FMax(0, FMin(Unit, throttle)))

\* calculateThrust: 4 * maxThrust * clamp(throttle, 0, 1)
calculateThrust(sp, throttle) ==
    FMul(4 * sp.maxThrust, FMax(0, FMin(Unit, throttle)))

\* calculateDrag: 0.5 * rho * v^2 * Cd * A against the relative velocity
calculateDrag(sp, velocity, airVelocity) ==
    LET dragMagnitude(speed) ==
            FMul(FMul(FMul(FMul(FMul(500, AIR_DENSITY), speed), speed),
                      sp.dragCoefficient), sp.frontalArea)
        drag(relativeVelocity, speed) ==
            IF FLt(speed, 1) THEN Vec(0, 0, 0)
            ELSE multiplyScalar(VNormalize(relativeVelocity), FNeg(dragMagnitude(speed)))
        against(relativeVelocity) == drag(relativeVelocity, VLength(relativeVelocity))
    IN  against(VSub(velocity, airVelocity))

\* mutant of calculateWindVelocity: the phase advanced whenever wind is enabled
calculateWindVelocityAnyGust(wc, gp, time, position) ==
    [wind |-> multiplyScalar(wc.direction, wc.baseSpeed),
     gustPhase |-> IF wc.enabled THEN FAdd(gp, FMul(wc.gustFrequency, 16)) ELSE gp]

\* calculateWindVelocity: the wind vector and the gust phase it leaves
calculateWindVelocity(wc, gp, time, position) ==
    IF ~wc.enabled THEN [wind |-> Vec(0, 0, 0), gustPhase |-> gp]
    ELSE
      LET gusty == wc.gustStrength > 0
          gustFactor(phase) ==
              FMax(0, FMul(Sin(FMul(FMul(phase, Pi), 2 * Unit)),
                           Sin(FMul(FMul(phase, Pi), 700))))
          gust(wind, phase) ==
              IF gusty
              THEN VAdd(wind, multiplyScalar(wc.direction,
                                             FMul(gustFactor(phase), wc.gustStrength)))
              ELSE wind
          turbulenceOffset(px, py, pz, turbScale) ==
              Vec(FMul(FMul(Sin(FMul(px, 2300)), Cos(FMul(py, 1700))), turbScale),
                  FMul(FMul(FMul(Sin(FMul(py, 2100)), Cos(FMul(pz, 1900))), turbScale), 500),
                  FMul(FMul(Sin(FMul(pz, 2500)), Cos(FMul(px, 1300))), turbScale))
          turbulence(wind, t) ==
              IF wc.turbulenceScale > 0
              THEN VAdd(wind,
                        turbulenceOffset(FAdd(FMul(position.x, 100), t),
                                         FAdd(FMul(position.y, 100), FMul(t, 700)),
                                         FAdd(FMul(position.z, 100), FMul(t, 300)),
                                         FMul(wc.turbulenceScale, 2 * Unit)))
              ELSE wind
          blow(phase) ==
              [wind |-> turbulence(gust(multiplyScalar(wc.direction, wc.baseSpeed), phase),
                                   FMul(time, 500)),
               gustPhase |-> phase]
      IN  blow(IF gusty THEN FAdd(gp, FMul(wc.gustFrequency, 16)) ELSE gp)

maxAccel == 100000
maxAngularSpeed == 30000
groundHeight == 50
maxDt == 50

\* mutant of clampAccel: the acceleration clamp left out
clampAccelOff(angularAccel) == angularAccel

\* step, "Clamp acceleration to prevent instability"
clampAccel(angularAccel) ==
    IF FGt(VLength(angularAccel), maxAccel)
    THEN setLength(angularAccel, maxAccel)
    ELSE angularAccel

\* step, "Clamp angular velocity (max ~1800 deg/s)"
clampAngularSpeed(w) ==
    IF FGt(VLength(w), maxAngularSpeed)
    THEN setLength(w, maxAngularSpeed)
    ELSE w

\* step, "Calculate Angular Motion with Inertia": angularAccel before the clamp
rawAngularAccel(sp, angularVelocity, rollRate, pitchRate, yawRate) ==
    LET desiredAngularVel == Vec(pitchRate, yawRate, FNeg(rollRate))
        angularError == VSub(desiredAngularVel, angularVelocity)
        accel(inertiaFactor) ==
            VAdd(multiplyScalar(angularError, FDiv(sp.responsiveness, inertiaFactor)),
                 multiplyScalar(angularVelocity, FDiv(FNeg(sp.angularDrag), inertiaFactor)))
    IN  accel(FAdd(300, FMul(FDiv(sp.mass, 650), 700)))

\* step, "Integrate angular velocity": newAngularVelocity before the ground
\* damping
integrateAngularVelocity(sp, angularVelocity, rollRate, pitchRate, yawRate, dt) ==
    clampAngularSpeed(
        addScaledVector(angularVelocity,
                        clampAccel(rawAngularAccel(sp, angularVelocity,
                                                   rollRate, pitchRate, yawRate)),
                        dt))

\* step, "Linear motion (semi-implicit Euler)": newVelocity before the
\* ground collision
integrateVelocity(sp, wc, gp, st, throttle, dt, time) ==
    LET gravityForce == Vec(0, FMul(-GRAVITY, sp.mass), 0)
        thrustForce == multiplyScalar(applyQuaternion(Vec(0, Unit, 0), st.quaternion),
                                      calculateThrust(sp, throttle))
        windVelocity == calculateWindVelocity(wc, gp, time, st.position).wind
        dragForce == calculateDrag(sp, st.velocity, windVelocity)
        acceleration(totalForce) ==
            Vec(FDiv(totalForce.x, sp.mass), FDiv(totalForce.y, sp.mass),
                FDiv(totalForce.z, sp.mass))
    IN  addScaledVector(
            st.velocity,
            acceleration(VAdd(VAdd(VAdd(Vec(0, 0, 0), gravityForce), thrustForce),
                              dragForce)),
            dt)

\* step, "Quaternion integration using angular velocity"
integrateQuaternion(quaternion, newAngularVelocity, dt) ==
    LET rotate(angularSpeed) ==
            IF FGt(FMul(angularSpeed, 10 * Unit), 1)
            THEN QNormalize(QMultiply(quaternion,
                     setFromAxisAngle(VNormalize(newAngularVelocity),
                                      FMul(angularSpeed, dt))))
            ELSE quaternion
    IN  rotate(VLength(newAngularVelocity))

\* mutant of groundCollision: the friction applied to velocity.x only
groundCollisionFrictionX(s) ==
    IF FLt(s.position.y, groundHeight)
    THEN [position |-> [s.position EXCEPT !.y = groundHeight],
          velocity |-> Vec(FMul(s.velocity.x, 950),
                           IF FLt(s.velocity.y, 0) THEN 0 ELSE s.velocity.y,
                           s.velocity.z),
          quaternion |-> s.quaternion,
          angularVelocity |-> multiplyScalar(s.angularVelocity, 900)]
    ELSE s

\* mutant of groundCollision: the position left below the ground
groundCollisionNoClamp(s) ==
    IF FLt(s.position.y, groundHeight)
    THEN [s EXCEPT !.velocity = Vec(FMul(s.velocity.x, 950),
                                    IF FLt(s.velocity.y, 0) THEN 0 ELSE s.velocity.y,
                                    FMul(s.velocity.z, 950)),
                   !.angularVelocity = multiplyScalar(s.angularVelocity, 900)]
    ELSE s

\* step, "Ground Collision"
groundCollision(s) ==
    IF FLt(s.position.y, groundHeight)
    THEN [position |-> [s.position EXCEPT !.y = groundHeight],
          velocity |-> Vec(FMul(s.velocity.x, 950),
                           IF FLt(s.velocity.y, 0) THEN 0 ELSE s.velocity.y,
                           FMul(s.velocity.z, 950)),
          quaternion |-> s.quaternion,
          angularVelocity |-> multiplyScalar(s.angularVelocity, 900)]
    ELSE s

\* step, "NaN safety check"
nanDetected(s) ==
    IsNaN(s.position.x) \/ IsNaN(s.velocity.x) \/ IsNaN(s.quaternion.x)

\* the state step computes before the ground collision
integrate(sp, wc, gp, st, throttle, rollRate, pitchRate, yawRate, dt0, time) ==
    LET new(dt, newAngularVelocity, newVelocity) ==
            [position |-> addScaledVector(st.position, newVelocity, dt),
             velocity |-> newVelocity,
             quaternion |-> integrateQuaternion(st.quaternion, newAngularVelocity, dt),
             angularVelocity |-> newAngularVelocity]
        clamped(dt) ==
            new(dt,
                integrateAngularVelocity(sp, st.angularVelocity,
                                         rollRate, pitchRate, yawRate, dt),
                integrateVelocity(sp, wc, gp, st, throttle, dt, time))
    IN  clamped(FMin(dt0, maxDt))

\* DronePhysicsEngine.step: the state it returns
step(sp, wc, gp, st, throttle, rollRate, pitchRate, yawRate, dt, time) ==
    LET check(s) == IF nanDetected(s) THEN createInitialState ELSE s
    IN  check(groundCollision(
                 integrate(sp, wc, gp, st, throttle, rollRate, pitchRate, yawRate, dt, time)))

-----------------------------------------------------------------------------
(* services/gamepad.ts: normalizeInput.  Raw axis values and calibration   *)
(* points count 1/AxisUnit, fine enough to tell spans below 0.001 from a   *)
(* span of 0; the normalized result counts 1/Unit.                         *)

AxisUnit == 10000
AxisEps == 10
Infinity == 1000000000

\* a / b as IEEE arithmetic divides: x / 0 is +-Infinity, 0 / 0 is NaN
JsDiv(a, b) ==
    IF b = 0 THEN (IF a = 0 THEN NaN ELSE IF a > 0 THEN Infinity ELSE -Infinity)
    ELSE RoundDiv(a * Unit, b)

\* mutant of interpolate: the degenerate-span tests left out
interpolateUnguarded(value, calibration) ==
    IF value > calibration.center
    THEN JsDiv(value - calibration.center, calibration.max - calibration.center)
    ELSE JsDiv(-(calibration.center - value), calibration.center - calibration.min)

\* normalizeInput, "Piecewise linear interpolation": normalized before the
\* clamp
interpolate(value, calibration) ==
    IF value > calibration.center
    THEN IF Abs(calibration.max - calibration.center) < AxisEps THEN 0
         ELSE JsDiv(value - calibration.center, calibration.max - calibration.center)
    ELSE IF Abs(calibration.center - calibration.min) < AxisEps THEN 0
         ELSE JsDiv(-(calibration.center - value), calibration.center - calibration.min)

\* mutant of normalizeInput: the inverted flag ignored
normalizeInputNoInvert(raw, calibration) ==
    FMax(-Unit, FMin(Unit, interpolate(raw, calibration)))

\* normalizeInput(raw, calibration)
normalizeInput(raw, calibration) ==
    LET clamp(normalized) == FMax(-Unit, FMin(Unit, normalized))
        invert(normalized) ==
            IF calibration.inverted THEN FNeg(normalized) ELSE normalized
    IN  invert(clamp(interpolate(raw, calibration)))

-----------------------------------------------------------------------------
(* constants.ts, App.tsx, components/SettingsPanel.tsx: the settings the   *)
(* application root holds, edits and persists                              *)

Axes == {"throttle", "yaw", "pitch", "roll"}
PhysicsFields == {"mass", "maxThrust", "dragCoefficient", "angularDrag", "responsiveness"}

DEFAULT_RATES ==
    [roll  |-> [rcRate |-> 1000, superRate |-> 700, expo |-> 200],
     pitch |-> [rcRate |-> 1000, superRate |-> 700, expo |-> 200],
     yaw   |-> [rcRate |-> 1000, superRate |-> 700, expo |-> 200]]

DEFAULT_CALIBRATION ==
    [throttle |-> [min |-> -AxisUnit, max |-> AxisUnit, center |-> 0, inverted |-> FALSE],
     yaw      |-> [min |-> -AxisUnit, max |-> AxisUnit, center |-> 0, inverted |-> FALSE],
     pitch    |-> [min |-> -AxisUnit, max |-> AxisUnit, center |-> 0, inverted |-> FALSE],
     roll     |-> [min |-> -AxisUnit, max |-> AxisUnit, center |-> 0, inverted |-> FALSE]]

DEFAULT_CHANNEL_MAP == [yaw |-> 0, throttle |-> 1, roll |-> 2, pitch |-> 3]

DEFAULT_WIND_SETTINGS ==
    [enabled |-> FALSE, baseSpeed |-> 0, directionAngle |-> 0,
     gustStrength |-> 0, gustFrequency |-> 500, turbulenceScale |-> 0]

\* { preset, ...DRONE_PRESETS[preset] }
presetPhysics(preset) ==
    [preset |-> preset,
     mass |-> DRONE_PRESETS[preset].mass,
     maxThrust |-> DRONE_PRESETS[preset].maxThrust,
     dragCoefficient |-> DRONE_PRESETS[preset].dragCoefficient,
     angularDrag |-> DRONE_PRESETS[preset].angularDrag,
     responsiveness |-> DRONE_PRESETS[preset].responsiveness]

DEFAULT_DRONE_PHYSICS == presetPhysics("FREESTYLE_5IN")

\* mutant of editPhysics: the preset name left as it was
editPhysicsKeepPreset(dronePhysics, field, value) ==
    [dronePhysics EXCEPT ![field] = value]

\* { ...dronePhysics, preset: 'CUSTOM', [field]: value }
editPhysics(dronePhysics, field, value) ==
    [dronePhysics EXCEPT !.preset = "CUSTOM", ![field] = value]

\* RateRow.handleChange: parseFloat(value.toFixed(2))
toFixed2(value) == RoundDiv(value, 10) * 10

(* JSON.  A JSON text is modelled by its tree: a leaf carries its type, an *)
(* object its members.  JSON.stringify writes null for a NaN; JSON.parse   *)
(* returns null as the value Null.                                         *)

Null == -1999999999
JsonNull == [t |-> "null", v |-> 0]
Undefined == [t |-> "undefined", v |-> 0]
jsonNumber(n) == IF IsNaN(n) \/ n = Null THEN JsonNull ELSE [t |-> "number", v |-> n]
jsonBoolean(b) == [t |-> "boolean", v |-> b]
jsonString(s) == [t |-> "string", v |-> s]
jsonObject(members) == [t |-> "object", v |-> members]
jsonNumbers(r) == jsonObject([k \in DOMAIN r |-> jsonNumber(r[k])])

\* JSON.stringify(settingsToSave)
stringify(s) ==
    jsonObject(
      [rates |-> jsonObject([a \in DOMAIN s.rates |-> jsonNumbers(s.rates[a])]),
       inputMode |-> jsonString(s.inputMode),
       cameraTilt |-> jsonNumber(s.cameraTilt),
       cameraFov |-> jsonNumber(s.cameraFov),
       cameraAspectRatio |-> jsonString(s.cameraAspectRatio),
       cameraMode |-> jsonString(s.cameraMode),
       analogStatic |-> jsonBoolean(s.analogStatic),
       calibration |->
           jsonObject([a \in DOMAIN s.calibration |->
               jsonObject([min |-> jsonNumber(s.calibration[a].min),
                           max |-> jsonNumber(s.calibration[a].max),
                           center |-> jsonNumber(s.calibration[a].center),
                           inverted |-> jsonBoolean(s.calibration[a].inverted)])]),
       channelMap |-> jsonNumbers(s.channelMap),
       windSettings |->
           jsonObject([enabled |-> jsonBoolean(s.windSettings.enabled),
                       baseSpeed |-> jsonNumber(s.windSettings.baseSpeed),
                       directionAngle |-> jsonNumber(s.windSettings.directionAngle),
                       gustStrength |-> jsonNumber(s.windSettings.gustStrength),
                       gustFrequency |-> jsonNumber(s.windSettings.gustFrequency),
                       turbulenceScale |-> jsonNumber(s.windSettings.turbulenceScale)]),
       dronePhysics |->
           jsonObject([preset |-> jsonString(s.dronePhysics.preset),
                       mass |-> jsonNumber(s.dronePhysics.mass),
                       maxThrust |-> jsonNumber(s.dronePhysics.maxThrust),
                       dragCoefficient |-> jsonNumber(s.dronePhysics.dragCoefficient),
                       angularDrag |-> jsonNumber(s.dronePhysics.angularDrag),
                       responsiveness |-> jsonNumber(s.dronePhysics.responsiveness)])])

\* JSON.parse: the value a JSON tree stands for
RECURSIVE parse(_)
parse(j) ==
    IF j.t = "object" THEN [k \in DOMAIN j.v |-> parse(j.v[k])]
    ELSE IF j.t = "null" THEN Null
    ELSE j.v

\* localStorage: no item under STORAGE_KEY, or the text last set
NoItem == [saved |-> FALSE, text |-> JsonNull]
setItem(text) == [saved |-> TRUE, text |-> text]

\* saved ? JSON.parse(saved) : null
initialSettings(storage) == IF storage.saved THEN storage.text ELSE JsonNull

\* initialSettings?.field
member(j, field) ==
    IF j.t # "object" THEN Undefined
    ELSE IF field \in DOMAIN j.v THEN j.v[field] ELSE Undefined

\* a falsy value: undefined, null, false, 0, NaN, ""
falsy(j) ==
    \/ j.t \in {"undefined", "null"}
    \/ j.t = "boolean" /\ ~j.v
    \/ j.t = "number" /\ j.v = 0
    \/ j.t = "string" /\ j.v = ""

\* j || fallback
logicalOr(j, fallback) == IF falsy(j) THEN fallback ELSE parse(j)

\* mutant of nullish: ?? written as ||
nullishAsOr(j, fallback) == logicalOr(j, fallback)

\* j ?? fallback
nullish(j, fallback) ==
    IF j.t \in {"undefined", "null"} THEN fallback ELSE parse(j)

\* App: the initial value of each piece of settings state
loadSettings(storage) ==
    LET field(name) == member(initialSettings(storage), name)
    IN  [rates |-> logicalOr(field("rates"), DEFAULT_RATES),
         inputMode |-> logicalOr(field("inputMode"), "GAMEPAD"),
         cameraTilt |-> nullish(field("cameraTilt"), 25),
         cameraFov |-> nullish(field("cameraFov"), 120),
         cameraAspectRatio |-> nullish(field("cameraAspectRatio"), "native"),
         cameraMode |-> logicalOr(field("cameraMode"), "FPV"),
         analogStatic |-> nullish(field("analogStatic"), FALSE),
         calibration |-> logicalOr(field("calibration"), DEFAULT_CALIBRATION),
         channelMap |-> logicalOr(field("channelMap"), DEFAULT_CHANNEL_MAP),
         windSettings |-> logicalOr(field("windSettings"), DEFAULT_WIND_SETTINGS),
         dronePhysics |-> logicalOr(field("dronePhysics"), DEFAULT_DRONE_PHYSICS)]

\* App, "Persist settings whenever they change"
persist(s) == setItem(stringify(s))

NoOp == [kind |-> "init", name |-> "", value |-> 0]

-----------------------------------------------------------------------------
(* Each service as constructed, before anything drives it                  *)

NotNormalized == [done |-> FALSE, ratio |-> 0, value |-> 0]

\* no axis normalized yet
NormIdle ==
    /\ axisInput = [raw |-> 0, calibration |-> DEFAULT_CALIBRATION.roll]
    /\ axisOutput = NotNormalized

\* App mounted on an empty localStorage
SettingsIdle ==
    /\ settings = loadSettings(NoItem)
    /\ localStorage = persist(loadSettings(NoItem))
    /\ before = loadSettings(NoItem)
    /\ settingsOp = NoOp
    /\ edits = 0

NoFrame == [valid |-> FALSE, keys |-> {}, dt |-> 0, throttle |-> 0]

\* Drone mounted: no key held, the virtual sticks centred, no frame rendered
KeyIdle ==
    /\ activeKeys = {}
    /\ virtualSticks = [throttle |-> 0]
    /\ frameLog = NoFrame
    /\ rampFrames = 0
    /\ frames = 0

NoRate == [done |-> FALSE, input |-> 0, rateProfile |-> DEFAULT_RATES.roll,
           rate |-> [n |-> 0, d |-> 1]]
NoDeadband == [done |-> FALSE, value |-> 0, result |-> [n |-> 0, d |-> 1]]

\* no stick value shaped yet
StickIdle ==
    /\ rateCall = NoRate
    /\ deadbandCall = NoDeadband

NoWindCall ==
    [valid |-> FALSE, fields |-> {}, enabled |-> FALSE, baseSpeed |-> 0,
     direction |-> 0, gustStrength |-> 0, gustFrequency |-> 0,
     turbulenceScale |-> 0]

\* the engine as constructed: its direction is its own clone of the default
WindIdle ==
    /\ vectors = <<DEFAULT_WIND_CONFIG.direction>>
    /\ directionRef = 1
    /\ windCall = NoWindCall
    /\ windUpdates = 0

NoRefs == [position |-> 0, velocity |-> 0, quaternion |-> 0, angularVelocity |-> 0]

\* no state object followed
ObjIdle ==
    /\ stateObjects = <<>>
    /\ stateRefs = NoRefs
    /\ inputRefs = NoRefs

\* the wind direction row as first rendered: 0 degrees (N)
CompassIdle == windLabel = [angle |-> 0, label |-> "N"]

\* HID devices the picker can offer; 0 stands for null
HidDevices == {1, 2}
\* places for the calls in flight
CallSlots == {1, 2}
NoService == [isConnected |-> FALSE, isConnecting |-> FALSE]
NoHidCall ==
    [pc |-> "idle", result |-> "pending", cause |-> "", device |-> 0, seq |-> 0,
     before |-> NoService, after |-> NoService]

\* the WebHID service as constructed, in a browser with WebHID
ConnIdle ==
    /\ service = [device |-> 0, isConnected |-> FALSE, isConnecting |-> FALSE]
    /\ opened = {}
    /\ inputListeners = [device \in HidDevices |-> 0]
    /\ hidCalls = [slot \in CallSlots |-> NoHidCall]
    /\ callsMade = 0
    /\ hasHid = TRUE

\* App mounted with no gamepad and no HID device: HUD renders, in GAMEPAD
\* mode, the red badge and the hint under it
HudIdle ==
    /\ controllerConnected = FALSE
    /\ hidConnected = FALSE
    /\ hud = [icon |-> "Gamepad2", color |-> "red", text |-> "NO CONTROLLER",
              hint |-> TRUE]

\* the calibration wizard not shown, no report received
WizIdle ==
    /\ hidChannels = <<0, 0, 0, 0, 0, 0, 0, 0>>
    /\ wizard = [shown |-> FALSE, step |-> 1, saved |-> FALSE]
    /\ tempCal = DEFAULT_CALIBRATION
    /\ intervalElapsed = -1
    /\ observed = [axis \in Axes |-> [min |-> 0, max |-> 0]]
    /\ quiet = 0

NoReset == [done |-> FALSE, state |-> createInitialState, throttle |-> 0]

\* no reset asked for since App mounted
ResetIdle ==
    /\ resetSignal = 0
    /\ resetLog = NoReset

\* callbacks that subscribe to the service
Subscribers == {1, 2}
NoReport ==
    [valid |-> FALSE, device |-> 0, handlers |-> 0, subscribed |-> {},
     invoked |-> [s \in Subscribers |-> 0]]

\* nothing subscribed, no report sent, no disconnect made
SubIdle ==
    /\ listeners = {}
    /\ lastReport = NoReport
    /\ afterDisconnect = [completed |-> FALSE, notified |-> 0]

NoPress ==
    [pressed |-> FALSE, gamepad |-> FALSE, step |-> 1, stepBefore |-> 1,
     cal |-> DEFAULT_CALIBRATION, calBefore |-> DEFAULT_CALIBRATION]

\* no gamepad, the gamepad calibration wizard not shown
PadIdle ==
    /\ gamepads = <<<<>>, <<>>>>
    /\ padWizard = [shown |-> FALSE, step |-> 1, saved |-> FALSE, captured |-> FALSE]
    /\ padCal = DEFAULT_CALIBRATION
    /\ rawAxes = <<0, 0, 0, 0>>
    /\ padPress = NoPress
    /\ calOpen = [kind |-> "none", calibration |-> DEFAULT_CALIBRATION]

ExtIdle ==
    /\ KeyIdle
    /\ StickIdle
    /\ WindIdle
    /\ ObjIdle
    /\ CompassIdle
    /\ ConnIdle
    /\ HudIdle
    /\ WizIdle
    /\ ResetIdle
    /\ SubIdle
    /\ PadIdle

\* all of them but WindIdle
IdleButWind ==
    /\ KeyIdle
    /\ StickIdle
    /\ ObjIdle
    /\ CompassIdle
    /\ ConnIdle
    /\ HudIdle
    /\ WizIdle
    /\ ResetIdle
    /\ SubIdle
    /\ PadIdle

\* all of them but ObjIdle
IdleButObjects ==
    /\ KeyIdle
    /\ StickIdle
    /\ WindIdle
    /\ CompassIdle
    /\ ConnIdle
    /\ HudIdle
    /\ WizIdle
    /\ ResetIdle
    /\ SubIdle
    /\ PadIdle

\* all of them but CompassIdle
IdleButCompass ==
    /\ KeyIdle
    /\ StickIdle
    /\ WindIdle
    /\ ObjIdle
    /\ ConnIdle
    /\ HudIdle
    /\ WizIdle
    /\ ResetIdle
    /\ SubIdle
    /\ PadIdle

\* all of them but ConnIdle
IdleButConn ==
    /\ KeyIdle
    /\ StickIdle
    /\ WindIdle
    /\ ObjIdle
    /\ CompassIdle
    /\ HudIdle
    /\ WizIdle
    /\ ResetIdle
    /\ SubIdle
    /\ PadIdle

\* all of them but HudIdle
IdleButHud ==
    /\ KeyIdle
    /\ StickIdle
    /\ WindIdle
    /\ ObjIdle
    /\ CompassIdle
    /\ ConnIdle
    /\ WizIdle
    /\ ResetIdle
    /\ SubIdle
    /\ PadIdle

\* all of them but WizIdle
IdleButWiz ==
    /\ KeyIdle
    /\ StickIdle
    /\ WindIdle
    /\ ObjIdle
    /\ CompassIdle
    /\ ConnIdle
    /\ HudIdle
    /\ ResetIdle
    /\ SubIdle
    /\ PadIdle

\* all of them but SubIdle
IdleButService ==
    /\ KeyIdle
    /\ StickIdle
    /\ WindIdle
    /\ ObjIdle
    /\ CompassIdle
    /\ ConnIdle
    /\ HudIdle
    /\ WizIdle
    /\ ResetIdle
    /\ PadIdle

\* all of them but PadIdle
IdleButPad ==
    /\ KeyIdle
    /\ StickIdle
    /\ WindIdle
    /\ ObjIdle
    /\ CompassIdle
    /\ ConnIdle
    /\ HudIdle
    /\ WizIdle
    /\ ResetIdle
    /\ SubIdle

-----------------------------------------------------------------------------
(* The engine driven as Drone.tsx drives it: physicsState.current =        *)
(* physicsEngine.step(physicsState.current, throttle, rates, dt, time)     *)

MaxSteps == 2

\* airframes the engine is configured with (Drone: updateSpecs effect)
ModelSpecs ==
    { createSpecsFromSettings(DRONE_PRESETS[p]) : p \in {"FREESTYLE_5IN", "WHOOP_65MM"} }

\* wind configurations (Drone: updateWindConfig effect): the default, and a
\* steady breeze with gusts and turbulence
ModelWinds ==
    { DEFAULT_WIND_CONFIG,
      [enabled |-> TRUE, baseSpeed |-> 3000, direction |-> Vec(0, 0, Unit),
       gustStrength |-> 1000, gustFrequency |-> 500, turbulenceScale |-> 100] }

\* states handed to step: the initial state, a drone lying on the ground, a
\* drone descending just above the ground, and tumbling ones (|w| <= 30 rad/s)
InputStates ==
    { createInitialState,
      [position |-> Vec(500, groundHeight, -300), velocity |-> Vec(0, 0, 0),
       quaternion |-> Quat(0, 0, 0, Unit), angularVelocity |-> Vec(0, 0, 0)],
      [position |-> Vec(0, 60, 0), velocity |-> Vec(1000, -2000, 500),
       quaternion |-> Quat(0, 0, 0, Unit), angularVelocity |-> Vec(0, 4000, 0)],
      [position |-> Vec(0, 80, 0), velocity |-> Vec(-3000, -1000, 2000),
       quaternion |-> Quat(0, 0, 707, 707), angularVelocity |-> Vec(20000, 20000, 10000)],
      [position |-> Vec(0, 2 * Unit, 0), velocity |-> Vec(0, 1000, 0),
       quaternion |-> Quat(707, 0, 0, 707), angularVelocity |-> Vec(-5000, 0, 12000)],
      [position |-> Vec(1000, groundHeight, 0), velocity |-> Vec(2000, 0, 0),
       quaternion |-> Quat(0, 0, 0, Unit), angularVelocity |-> Vec(0, 0, -25000)] }

Throttles == {0, Unit}
\* <<rollRate, pitchRate, yawRate>> in rad/s
RateTargets == { <<0, 0, 0>>, <<40000, -10000, 20000>> }
\* frame times: 60 fps, the clamp value, and a slow frame that step clamps
FrameTimes == {16, maxDt, 200}
ClockTimes == {1500}

NoCall ==
    [valid |-> FALSE, state |-> createInitialState, throttle |-> 0,
     rates |-> <<0, 0, 0>>, dt |-> 0, time |-> 0, gustPhase |-> 0]

\* the WebHID service as constructed
HidIdle ==
    /\ rawChannels = <<0, 0, 0, 0, 0, 0, 0, 0>>
    /\ hidReport = <<>>
    /\ notified = <<>>
    /\ reports = 0

InitStep ==
    /\ ExtIdle
    /\ HidIdle
    /\ NormIdle
    /\ SettingsIdle
    /\ state \in InputStates
    /\ specs \in ModelSpecs
    /\ windConfig \in ModelWinds
    /\ gustPhase = 0
    /\ call = NoCall
    /\ steps = 0

\* useFrame: one call of physicsEngine.step, its result stored as the state
Step(throttle, rates, dt, time) ==
    /\ steps < MaxSteps
    /\ state' = step(specs, windConfig, gustPhase, state, throttle,
                     rates[1], rates[2], rates[3], dt, time)
    /\ gustPhase' = calculateWindVelocity(windConfig, gustPhase, time,
                                          state.position).gustPhase
    /\ call' = [valid |-> TRUE, state |-> state, throttle |-> throttle,
                rates |-> rates, dt |-> dt, time |-> time, gustPhase |-> gustPhase]
    /\ steps' = steps + 1
    /\ UNCHANGED <<specs, windConfig, hidVars, normVars, settingsVars, extVars>>

NextStep ==
    \E throttle \in Throttles, rates \in RateTargets, dt \in FrameTimes,
       time \in ClockTimes : Step(throttle, rates, dt, time)

SpecStep == InitStep /\ [][NextStep]_vars

-----------------------------------------------------------------------------
(* step on a state with one NaN component (a numerical blow-up)            *)

Components == {"px", "py", "pz", "vx", "vy", "vz", "qx", "qy", "qz", "qw"}

Poison(s, c) ==
    CASE c = "px" -> [s EXCEPT !.position.x = NaN]
      [] c = "py" -> [s EXCEPT !.position.y = NaN]
      [] c = "pz" -> [s EXCEPT !.position.z = NaN]
      [] c = "vx" -> [s EXCEPT !.velocity.x = NaN]
      [] c = "vy" -> [s EXCEPT !.velocity.y = NaN]
      [] c = "vz" -> [s EXCEPT !.velocity.z = NaN]
      [] c = "qx" -> [s EXCEPT !.quaternion.x = NaN]
      [] c = "qy" -> [s EXCEPT !.quaternion.y = NaN]
      [] c = "qz" -> [s EXCEPT !.quaternion.z = NaN]
      [] c = "qw" -> [s EXCEPT !.quaternion.w = NaN]

InitNaN ==
    /\ ExtIdle
    /\ HidIdle
    /\ NormIdle
    /\ SettingsIdle
    /\ \E s \in InputStates, c \in Components : state = Poison(s, c)
    /\ specs \in ModelSpecs
    /\ windConfig \in ModelWinds
    /\ gustPhase = 0
    /\ call = NoCall
    /\ steps = 0

SpecNaN == InitNaN /\ [][NextStep]_vars

-----------------------------------------------------------------------------
(* Properties of DronePhysicsEngine.step *)

\* the state the last step call integrated, before its ground collision
Integrated ==
    integrate(specs, windConfig, call.gustPhase, call.state, call.throttle,
              call.rates[1], call.rates[2], call.rates[3], call.dt, call.time)

InputHasNaN(s) == VHasNaN(s.position) \/ VHasNaN(s.velocity) \/ QHasNaN(s.quaternion)

\* C1: a step whose input state has a NaN component of position, velocity or
\* quaternion returns exactly the initial state.
C1_NaNInputResets ==
    (call.valid /\ InputHasNaN(call.state)) => state = createInitialState

\* C2: a step from a state with downward velocity whose integrated position
\* is below the ground height returns position.y = 0.05, velocity.y = 0 and
\* horizontal velocities of 0.95 times the integrated ones.
C2_GroundClamp ==
    (call.valid /\ call.state.velocity.y < 0 /\ Integrated.position.y < groundHeight)
        => /\ state.position.y = groundHeight
           /\ state.velocity.y = 0
           /\ state.velocity.x = FMul(Integrated.velocity.x, 950)
           /\ state.velocity.z = FMul(Integrated.velocity.z, 950)

\* C2 witness: such a landing with horizontal motion left after the friction
C2_Witness ==
    /\ call.valid /\ call.state.velocity.y < 0
    /\ Integrated.position.y < groundHeight
    /\ Integrated.velocity.x # 0 /\ Integrated.velocity.z # 0
    /\ state.position.y = groundHeight
    /\ state.velocity.x # Integrated.velocity.x

\* rounding allowance of the fixed-point arithmetic, in units of 1/Unit rad/s
RoundingTol == 2

SpeedBounded == VLength(state.angularVelocity) <= maxAngularSpeed + RoundingTol

DeltaBounded ==
    VLength(VSub(state.angularVelocity, call.state.angularVelocity))
        <= FMul(maxAccel, call.dt) + RoundingTol

\* C3 as claimed: after every step with dt in (0, 0.05] the angular velocity
\* is at most 30 rad/s and differs from the input's by at most 100 * dt.
C3_AngularClampEveryStep ==
    (call.valid /\ call.dt <= maxDt) => (SpeedBounded /\ DeltaBounded)

\* C3 amended: after every step with dt in (0, 0.05] the angular velocity is
\* at most 30 rad/s, and when the step made no ground contact it differs
\* from the input's by at most 100 * dt (up to the rounding allowance).
C3_AngularClamp ==
    (call.valid /\ call.dt <= maxDt)
        => /\ SpeedBounded
           /\ (Integrated.position.y >= groundHeight => DeltaBounded)

\* C3 witness: an airborne step whose raw angular acceleration exceeded
\* 100 rad/s^2 and was clamped
C3_Witness ==
    /\ call.valid /\ call.dt <= maxDt
    /\ Integrated.position.y >= groundHeight
    /\ VLength(rawAngularAccel(specs, call.state.angularVelocity,
                               call.rates[1], call.rates[2], call.rates[3])) > maxAccel
    /\ state.angularVelocity # call.state.angularVelocity

-----------------------------------------------------------------------------
(* services/webhid.ts: the input report decoder.  A report is the sequence *)
(* of its bytes (DataView offset i is element i + 1).  A channel value is  *)
(* an exact fraction, kept as its numerator over ChDen: (byte / 127.5) - 1 *)
(* is (2 * byte - 255) * 500 / ChDen and (value - 1500) / 500 is           *)
(* (value - 1500) * 255 / ChDen.                                           *)

ChDen == 255 * 500

CHANNEL_MIN == 1000
CHANNEL_MAX == 2000
CHANNEL_MID == 1500

\* the physics engine and the Drone as constructed
PhysIdle ==
    /\ state = createInitialState
    /\ call = NoCall
    /\ specs = DEFAULT_DRONE_SPECS
    /\ windConfig = DEFAULT_WIND_CONFIG
    /\ gustPhase = 0
    /\ steps = 0

\* DataView.getUint8 / getUint16(offset, littleEndian = true)
getUint8(data, offset) == data[offset + 1]
getUint16(data, offset) == data[offset + 1] + 256 * data[offset + 2]

\* normalizeChannel: (value - CHANNEL_MID) / (CHANNEL_MAX - CHANNEL_MID)
normalizeChannel(value) ==
    ((value - CHANNEL_MID) * ChDen) \div (CHANNEL_MAX - CHANNEL_MID)

\* (val / 127.5) - 1
normalizeByte(val) == (2 * val - 255) * 500

\* parseUSBJoystick: the eight channels, or <<>> for null
parseUSBJoystick(data) ==
    LET zero == [i \in 1..8 |-> 0]
        ch16 == [i \in 1..8 |->
                   LET offset == 3 + (i - 1) * 2
                   IN  IF offset + 1 < Len(data)
                       THEN normalizeByte(getUint16(data, offset))
                       ELSE zero[i]]
        \* Math.abs(ch) > 0.01
        hasMovement == \E i \in 1..8 : Abs(ch16[i]) > ChDen \div 100
        axisBytes == <<4, 6, 7, 8, 10, 11, 12, 13>>
        ch8 == [i \in 1..8 |->
                  IF axisBytes[i] < Len(data)
                  THEN normalizeByte(getUint8(data, axisBytes[i]))
                  ELSE ch16[i]]
    IN  IF Len(data) = 19
        THEN IF hasMovement THEN ch16 ELSE ch8
        ELSE IF Len(data) >= 9
             THEN [i \in 1..8 |-> normalizeByte(getUint8(data, i))]
             ELSE <<>>

\* i < Math.min(8, byteLength / n) for integer i
CountBelow(len, n) == IF len \div n >= 8 THEN 8 ELSE (len + n - 1) \div n

\* parseAs8Bit: up to eight bytes from the start of the report
parseAs8Bit(data) ==
    [i \in 1..CountBelow(Len(data), 1) |-> normalizeByte(getUint8(data, i - 1))]

\* handleInputReport: the rawChannels it leaves
handleInputReport(data, channels) ==
    LET usb == IF Len(data) = 19 \/ Len(data) >= 11 THEN parseUSBJoystick(data) ELSE <<>>
        parsed1 == usb # <<>>
        u16 == [i \in 1..CountBelow(Len(data), 2) |-> getUint16(data, (i - 1) * 2)]
        isValidRange == \A i \in DOMAIN u16 : u16[i] >= 900 /\ u16[i] <= 2100
    IN  IF parsed1 THEN usb
        ELSE IF Len(data) >= 16 /\ isValidRange
             THEN [i \in DOMAIN u16 |-> normalizeChannel(u16[i])]
             ELSE IF Len(data) >= 4 THEN parseAs8Bit(data)
                  ELSE channels

-----------------------------------------------------------------------------
(* Input reports *)

MaxReports == 2

Fill(len, b) == [i \in 1..len |-> b]

RECURSIVE LE16(_)
\* eight 16-bit values as sixteen little-endian bytes
LE16(vals) ==
    IF vals = <<>> THEN <<>>
    ELSE <<Head(vals) % 256, Head(vals) \div 256>> \o LE16(Tail(vals))

\* webhid.ts: "Observed data pattern at center sticks"
CenterReport == <<0, 0, 0, 0, 4, 0, 4, 0, 0, 0, 4, 0, 0, 0, 0, 0, 0, 0, 0>>

ReportLengths == {0, 1, 3, 4, 5, 7, 8, 9, 10, 11, 15, 16, 19, 20}
FillBytes == {0, 4, 128, 255}
PulseWidths == {CHANNEL_MIN, CHANNEL_MID, CHANNEL_MAX, 1234}

Reports ==
    { Fill(len, b) : len \in ReportLengths, b \in FillBytes }
    \cup { CenterReport }
    \* microsecond reports: channels alternate between two pulse widths
    \cup { LE16([i \in 1..8 |-> IF i % 2 = 1 THEN a ELSE b]) : a, b \in PulseWidths }
    \* 19-byte reports whose 16-bit words at offset 3 are all 127 or 128
    \cup { [i \in 1..19 |-> IF i >= 4 /\ i % 2 = 0 THEN lo ELSE 0] : lo \in {127, 128} }
    \* a 19-byte report with a moved stick (webhid.ts: "bytes 7, 8 change")
    \cup { <<0, 0, 0, 0, 4, 0, 4, 23, 8, 0, 4, 0, 0, 0, 0, 0, 0, 0, 0>> }

InitHID == PhysIdle /\ HidIdle /\ NormIdle /\ SettingsIdle /\ ExtIdle

\* the device delivers an input report: handleInputReport, then every
\* subscriber is called with this.rawChannels
InputReport(data) ==
    /\ reports < MaxReports
    /\ rawChannels' = handleInputReport(data, rawChannels)
    /\ notified' = rawChannels'
    /\ hidReport' = data
    /\ reports' = reports + 1
    /\ UNCHANGED <<physVars, normVars, settingsVars, extVars>>

NextHID == \E data \in Reports : InputReport(data)

SpecHID == InitHID /\ [][NextHID]_vars

-----------------------------------------------------------------------------
(* Properties of the input report decoder *)

\* the eight little-endian 16-bit values of a 16-byte report
Words(data) == [i \in 1..8 |-> getUint16(data, (i - 1) * 2)]

\* C4: after a 16-byte report whose eight little-endian 16-bit values all lie
\* in [1000, 2000] the channels are (value - 1500) / 500 of those values.
C4_MicrosecondFormat ==
    (reports > 0 /\ Len(hidReport) = 16
       /\ \A i \in 1..8 : Words(hidReport)[i] >= CHANNEL_MIN
                          /\ Words(hidReport)[i] <= CHANNEL_MAX)
        => rawChannels = [i \in 1..8 |-> (Words(hidReport)[i] - 1500) * 255]

\* C5: after the documented 19-byte centre-stick report the channels are
\* (byte / 127.5) - 1 of the single bytes at offsets 4, 6, 7, 8, 10, 11, 12, 13.
C5_CenterReportFallback ==
    (reports > 0 /\ hidReport = CenterReport)
        => rawChannels =
             [i \in 1..8 |->
                (2 * CenterReport[<<4, 6, 7, 8, 10, 11, 12, 13>>[i] + 1] - 255) * 500]

\* C6: after any sequence of reports of any length the channel array held by
\* the service and the array handed to the subscribers have exactly eight
\* elements.
C6_EightChannels ==
    /\ Len(rawChannels) = 8
    /\ reports > 0 => Len(notified) = 8

-----------------------------------------------------------------------------
(* normalizeInput applied to one raw axis value under one calibration      *)

\* raw values and calibration points: -1, 1, the centre, points less than
\* 0.001 from it, a point exactly 0.001 from it, and a raw value beyond max
AxisValues == {-10000, -10, -5, 0, 5, 9, 10, 5000, 10000, 15000}
AxisCalibrations ==
    [min : AxisValues, max : AxisValues, center : AxisValues, inverted : BOOLEAN]

InitNormalize ==
    /\ ExtIdle
    /\ PhysIdle
    /\ HidIdle
    /\ SettingsIdle
    /\ axisInput \in [raw : AxisValues, calibration : AxisCalibrations]
    /\ axisOutput = NotNormalized

\* Drone useFrame: normalizeInput(raw, calibration[control])
Normalize ==
    /\ ~axisOutput.done
    /\ axisOutput' = [done |-> TRUE,
                      ratio |-> interpolate(axisInput.raw, axisInput.calibration),
                      value |-> normalizeInput(axisInput.raw, axisInput.calibration)]
    /\ UNCHANGED <<axisInput, physVars, hidVars, settingsVars, extVars>>

NextNormalize == Normalize

SpecNormalize == InitNormalize /\ [][NextNormalize]_vars

\* C7 (as stated): for every calibration with min < center < max, however
\* close together, and inverted = false, normalizeInput(center) = 0,
\* normalizeInput(max) = 1 and normalizeInput(min) = -1, and every result
\* lies in [-1, 1]; with inverted = true the result is the negation of the
\* non-inverted result.
C7_NormalizeAnySpan ==
    (axisOutput.done /\ axisInput.calibration.min < axisInput.calibration.center
                     /\ axisInput.calibration.center < axisInput.calibration.max) =>
        /\ ~axisInput.calibration.inverted =>
              /\ axisInput.raw = axisInput.calibration.center => axisOutput.value = 0
              /\ axisInput.raw = axisInput.calibration.max => axisOutput.value = Unit
              /\ axisInput.raw = axisInput.calibration.min => axisOutput.value = -Unit
        /\ axisOutput.value >= -Unit
        /\ axisOutput.value <= Unit
        /\ axisInput.calibration.inverted =>
              axisOutput.value =
                  -normalizeInput(axisInput.raw, [axisInput.calibration EXCEPT !.inverted = FALSE])

\* C7 (amended): for every calibration with min < center < max and
\* inverted = false, normalizeInput(center) = 0; normalizeInput(max) is 1
\* when max - center >= 0.001 and 0 when it is smaller; normalizeInput(min)
\* is -1 when center - min >= 0.001 and 0 when it is smaller; every result
\* lies in [-1, 1]; with inverted = true the result is the negation of the
\* non-inverted result.
C7_NormalizeEndpoints ==
    (axisOutput.done /\ axisInput.calibration.min < axisInput.calibration.center
                     /\ axisInput.calibration.center < axisInput.calibration.max) =>
        /\ ~axisInput.calibration.inverted =>
              /\ axisInput.raw = axisInput.calibration.center => axisOutput.value = 0
              /\ axisInput.raw = axisInput.calibration.max =>
                    axisOutput.value =
                        IF axisInput.calibration.max - axisInput.calibration.center >= AxisEps
                        THEN Unit ELSE 0
              /\ axisInput.raw = axisInput.calibration.min =>
                    axisOutput.value =
                        IF axisInput.calibration.center - axisInput.calibration.min >= AxisEps
                        THEN -Unit ELSE 0
        /\ axisOutput.value >= -Unit
        /\ axisOutput.value <= Unit
        /\ axisInput.calibration.inverted =>
              axisOutput.value =
                  -normalizeInput(axisInput.raw, [axisInput.calibration EXCEPT !.inverted = FALSE])

\* an inverted axis at its max point, the spans both at least 0.001:
\* the result is -1
C7_Witness ==
    /\ axisOutput.done
    /\ axisInput.calibration.inverted
    /\ axisInput.calibration.min + AxisEps <= axisInput.calibration.center
    /\ axisInput.calibration.center + AxisEps <= axisInput.calibration.max
    /\ axisInput.raw = axisInput.calibration.max
    /\ axisOutput.value = -Unit

\* C8: when |max - center| < 0.001 every raw value greater than center
\* normalizes to 0, and when |center - min| < 0.001 every raw value less
\* than or equal to center normalizes to 0; no input makes the ratio a
\* division by zero (an infinity or a NaN), and no result is NaN.
C8_Degenerate ==
    axisOutput.done =>
        /\ ( /\ Abs(axisInput.calibration.max - axisInput.calibration.center) < AxisEps
             /\ axisInput.raw > axisInput.calibration.center ) => axisOutput.value = 0
        /\ ( /\ Abs(axisInput.calibration.center - axisInput.calibration.min) < AxisEps
             /\ axisInput.raw <= axisInput.calibration.center ) => axisOutput.value = 0
        /\ axisOutput.ratio \notin {Infinity, -Infinity, NaN}
        /\ axisOutput.value \notin {Infinity, -Infinity, NaN}

\* max = center and a raw value above the centre: the result is 0
C8_Witness ==
    /\ axisOutput.done
    /\ axisInput.calibration.max = axisInput.calibration.center
    /\ axisInput.raw > axisInput.calibration.center
    /\ axisOutput.ratio = 0
    /\ axisOutput.value = 0

-----------------------------------------------------------------------------
(* The settings edited through the settings panel, persisted by the        *)
(* application root after every change, and loaded again on a reload       *)

MaxEdits == 2

InputModes == {"GAMEPAD", "KEYBOARD", "WEBHID"}
CameraModes == {"FPV", "THIRD_PERSON", "LOS"}
\* the tilt slider: 0 to 60 degrees
CameraTilts == {0, 60}
CameraFovs == {90}
CameraAspectRatios == {"16:9"}
\* <<axis, key, slider value>>
RateEdits == { <<"roll", "rcRate", 100>>, <<"yaw", "superRate", 0>>,
               <<"pitch", "expo", 1000>> }
\* what a calibration wizard captured: a stick left at rest, and a stick
\* moved between -0.8 and 0.9 around a centre of 0.02
WizardCalibrations ==
    { [min |-> 0, max |-> 0, center |-> 0],
      [min |-> -8000, max |-> 9000, center |-> 200] }
\* <<control, channel>>
ChannelEdits == { <<"roll", 0>>, <<"throttle", 7>> }
PresetButtons == (DOMAIN DRONE_PRESETS) \ {"CUSTOM"}
\* <<field, slider value>>: an end of each slider
PhysicsEdits == { <<"mass", 20>>, <<"maxThrust", 20000>>, <<"responsiveness", 1000>>,
                  <<"angularDrag", 10000>>, <<"dragCoefficient", 200>> }
WindEdits == { <<"baseSpeed", 20000>>, <<"directionAngle", 345>>,
               <<"gustFrequency", 100>> }
\* Quick Presets: Calm, Light, Moderate, Storm
WindPresets ==
    [Calm     |-> [baseSpeed |-> 0, gustStrength |-> 0, turbulenceScale |-> 0],
     Light    |-> [baseSpeed |-> 3000, gustStrength |-> 1000, turbulenceScale |-> 100],
     Moderate |-> [baseSpeed |-> 7000, gustStrength |-> 3000, turbulenceScale |-> 300],
     Storm    |-> [baseSpeed |-> 15000, gustStrength |-> 8000, turbulenceScale |-> 700]]

InitSettings ==
    /\ ExtIdle
    /\ PhysIdle
    /\ HidIdle
    /\ NormIdle
    /\ SettingsIdle

\* a state setter called with new settings, then the persist effect
Change(new, kind, name, value) ==
    /\ edits < MaxEdits
    /\ settings' = new
    /\ localStorage' = persist(new)
    /\ before' = settings
    /\ settingsOp' = [kind |-> kind, name |-> name, value |-> value]
    /\ edits' = edits + 1
    /\ UNCHANGED <<physVars, hidVars, normVars, extVars>>

SetInputMode(mode) ==
    Change([settings EXCEPT !.inputMode = mode], "set", "inputMode", 0)

SetCameraMode(mode) ==
    Change([settings EXCEPT !.cameraMode = mode], "set", "cameraMode", 0)

\* the 'c' key: FPV -> THIRD_PERSON -> LOS -> FPV
CycleCameraMode ==
    Change([settings EXCEPT !.cameraMode =
                IF @ = "FPV" THEN "THIRD_PERSON"
                ELSE IF @ = "THIRD_PERSON" THEN "LOS" ELSE "FPV"],
           "set", "cameraMode", 0)

SetCameraTilt(tilt) ==
    Change([settings EXCEPT !.cameraTilt = tilt], "set", "cameraTilt", tilt)

SetCameraFov(fov) ==
    Change([settings EXCEPT !.cameraFov = fov], "set", "cameraFov", fov)

SetCameraAspectRatio(ratio) ==
    Change([settings EXCEPT !.cameraAspectRatio = ratio], "set", "cameraAspectRatio", 0)

ToggleAnalogStatic ==
    Change([settings EXCEPT !.analogStatic = ~@], "set", "analogStatic", 0)

\* RateRow.handleChange, then SettingsPanel.updateRate
UpdateRate(rateAxis, key, value) ==
    Change([settings EXCEPT !.rates[rateAxis][key] = toFixed2(value)],
           "set", "rates", value)

\* SettingsPanel.toggleInvert
ToggleInvert(a) ==
    Change([settings EXCEPT !.calibration[a].inverted = ~@], "set", "calibration", 0)

\* a calibration wizard finished: onSave(tempCal), each axis keeping its
\* inverted flag
SaveCalibration(c) ==
    Change([settings EXCEPT !.calibration =
                [a \in Axes |-> [min |-> c.min, max |-> c.max, center |-> c.center,
                                 inverted |-> settings.calibration[a].inverted]]],
           "set", "calibration", 0)

SetChannel(control, channel) ==
    Change([settings EXCEPT !.channelMap[control] = channel], "set", "channelMap", channel)

\* a preset button
SelectPreset(preset) ==
    Change([settings EXCEPT !.dronePhysics = presetPhysics(preset)], "preset", preset, 0)

\* a custom tuning slider
EditPhysics(field, value) ==
    Change([settings EXCEPT !.dronePhysics = editPhysics(@, field, value)],
           "edit", field, value)

ToggleWind ==
    Change([settings EXCEPT !.windSettings.enabled = ~@], "set", "windSettings", 0)

SetWind(field, value) ==
    Change([settings EXCEPT !.windSettings[field] = value], "set", "windSettings", value)

WindPreset(name) ==
    Change([settings EXCEPT !.windSettings =
                [@ EXCEPT !.baseSpeed = WindPresets[name].baseSpeed,
                          !.gustStrength = WindPresets[name].gustStrength,
                          !.turbulenceScale = WindPresets[name].turbulenceScale]],
           "set", "windSettings", 0)

\* the page loaded again: every piece of state initialised from the stored
\* item, then the persist effect of the mount
Reload ==
    /\ settings' = loadSettings(localStorage)
    /\ localStorage' = persist(loadSettings(localStorage))
    /\ before' = settings
    /\ settingsOp' = [kind |-> "reload", name |-> "", value |-> 0]
    /\ UNCHANGED <<edits, physVars, hidVars, normVars, extVars>>

NextSettings ==
    \/ \E mode \in InputModes : SetInputMode(mode)
    \/ \E mode \in CameraModes : SetCameraMode(mode)
    \/ CycleCameraMode
    \/ \E tilt \in CameraTilts : SetCameraTilt(tilt)
    \/ \E fov \in CameraFovs : SetCameraFov(fov)
    \/ \E ratio \in CameraAspectRatios : SetCameraAspectRatio(ratio)
    \/ ToggleAnalogStatic
    \/ \E e \in RateEdits : UpdateRate(e[1], e[2], e[3])
    \/ \E a \in Axes : ToggleInvert(a)
    \/ \E c \in WizardCalibrations : SaveCalibration(c)
    \/ \E e \in ChannelEdits : SetChannel(e[1], e[2])
    \/ \E preset \in PresetButtons : SelectPreset(preset)
    \/ \E e \in PhysicsEdits : EditPhysics(e[1], e[2])
    \/ ToggleWind
    \/ \E e \in WindEdits : SetWind(e[1], e[2])
    \/ \E name \in DOMAIN WindPresets : WindPreset(name)
    \/ Reload

SpecSettings == InitSettings /\ [][NextSettings]_vars

\* the compiled-in defaults
DefaultSettings ==
    [rates |-> DEFAULT_RATES, inputMode |-> "GAMEPAD", cameraTilt |-> 25,
     cameraFov |-> 120, cameraAspectRatio |-> "native", cameraMode |-> "FPV",
     analogStatic |-> FALSE, calibration |-> DEFAULT_CALIBRATION,
     channelMap |-> DEFAULT_CHANNEL_MAP, windSettings |-> DEFAULT_WIND_SETTINGS,
     dronePhysics |-> DEFAULT_DRONE_PHYSICS]

SameSettings(s, t) ==
    /\ s.rates = t.rates
    /\ s.inputMode = t.inputMode
    /\ s.cameraTilt = t.cameraTilt
    /\ s.cameraFov = t.cameraFov
    /\ s.cameraAspectRatio = t.cameraAspectRatio
    /\ s.cameraMode = t.cameraMode
    /\ s.analogStatic = t.analogStatic
    /\ s.calibration = t.calibration
    /\ s.channelMap = t.channelMap
    /\ s.windSettings = t.windSettings
    /\ s.dronePhysics = t.dronePhysics

\* C9: after any sequence of settings changes, a reload from the item
\* stored under react_fpv_settings_v1 gives each of the eleven settings the
\* value it had before the reload (falsy values such as cameraTilt = 0 and
\* analogStatic = false included); mounted on an absent store, every setting
\* has its compiled-in default.
C9_PersistRoundTrip ==
    /\ settingsOp.kind = "reload" => SameSettings(settings, before)
    /\ settingsOp.kind = "init" => SameSettings(settings, DefaultSettings)
    /\ localStorage.saved

\* a reload that kept a camera tilt of 0, analog static off and the
\* keyboard input mode
C9_Witness ==
    /\ settingsOp.kind = "reload"
    /\ before.cameraTilt = 0
    /\ settings.cameraTilt = 0
    /\ ~before.analogStatic
    /\ ~settings.analogStatic
    /\ before.inputMode = "KEYBOARD"
    /\ settings.inputMode = "KEYBOARD"

\* C10: a preset button P (never CUSTOM) sets dronePhysics to exactly
\* DRONE_PRESETS[P] with preset = P; an edit of one of mass, maxThrust,
\* angularDrag, dragCoefficient, responsiveness sets preset to CUSTOM, sets
\* the edited field to the new value and leaves the other four fields as
\* they were.
C10_PresetApplication ==
    /\ settingsOp.kind = "preset" =>
          /\ settingsOp.name # "CUSTOM"
          /\ settings.dronePhysics.preset = settingsOp.name
          /\ \A f \in PhysicsFields :
                settings.dronePhysics[f] = DRONE_PRESETS[settingsOp.name][f]
          /\ DOMAIN settings.dronePhysics = PhysicsFields \cup {"preset"}
    /\ settingsOp.kind = "edit" =>
          /\ settings.dronePhysics.preset = "CUSTOM"
          /\ settings.dronePhysics[settingsOp.name] = settingsOp.value
          /\ \A f \in PhysicsFields \ {settingsOp.name} :
                settings.dronePhysics[f] = before.dronePhysics[f]

\* a slider moved right after the RACE_5IN preset was selected
C10_Witness ==
    /\ settingsOp.kind = "edit"
    /\ settingsOp.name = "mass"
    /\ before.dronePhysics.preset = "RACE_5IN"
    /\ before.dronePhysics.mass # settings.dronePhysics.mass
    /\ settings.dronePhysics.maxThrust = DRONE_PRESETS["RACE_5IN"].maxThrust

-----------------------------------------------------------------------------
(* components/Drone.tsx: the keyboard's virtual throttle.  Times and stick *)
(* values are counted in 1/KeyUnit, so that a frame of 1/60 s and its ramp *)
(* of 2/60 are whole numbers.                                               *)

KeyUnit == 600
\* a frame of 1/60 s
Sixtieth == KeyUnit \div 60

\* const dt = Math.min(delta, 0.05)
frameDt(delta) == IF delta < KeyUnit \div 20 THEN delta ELSE KeyUnit \div 20

keyboardThrottleUnclamped(throttle, keys, dt) ==
    LET rampSpeed == 2 * dt
        up(t) == IF "KeyW" \in keys THEN t + rampSpeed ELSE t
        down(t) == IF "KeyS" \in keys THEN t - rampSpeed ELSE t
    IN  down(up(throttle))

\* the KEYBOARD branch of useFrame: rampSpeed = 2.0 * dt, += for KeyW,
\* -= for KeyS, then Math.max(0, Math.min(1, throttle))
keyboardThrottle(throttle, keys, dt) ==
    LET rampSpeed == 2 * dt
        up(t) == IF "KeyW" \in keys THEN t + rampSpeed ELSE t
        down(t) == IF "KeyS" \in keys THEN t - rampSpeed ELSE t
        clamp(t) == IF t > KeyUnit THEN KeyUnit ELSE IF t < 0 THEN 0 ELSE t
    IN  clamp(down(up(throttle)))

MaxFrames == 32
\* KeyA stands for the keys that steer the other sticks
KeyCodes == {"KeyW", "KeyS", "KeyA"}
\* the clock's delta: 1/60 s, and a stalled frame of 0.2 s
FrameDeltas == {Sixtieth, KeyUnit \div 5}

\* App reloaded after the input mode was chosen
SettingsInMode(mode) ==
    LET chosen(s) ==
            /\ settings = s
            /\ localStorage = persist(s)
            /\ before = s
    IN  /\ chosen(loadSettings(persist([loadSettings(NoItem)
                                            EXCEPT !.inputMode = mode])))
        /\ settingsOp = NoOp
        /\ edits = 0

InitKeyboard ==
    /\ PhysIdle
    /\ HidIdle
    /\ NormIdle
    /\ ExtIdle
    /\ \E mode \in InputModes : SettingsInMode(mode)

\* handleKeyDown: activeKeys.current.add(e.code)
KeyDown(code) ==
    /\ activeKeys' = activeKeys \cup {code}
    /\ UNCHANGED <<virtualSticks, frameLog, rampFrames, frames, exceptKeyVars>>

\* handleKeyUp: activeKeys.current.delete(e.code)
KeyUp(code) ==
    /\ activeKeys' = activeKeys \ {code}
    /\ UNCHANGED <<virtualSticks, frameLog, rampFrames, frames, exceptKeyVars>>

\* useFrame up to the throttle it hands to the physics step: only the
\* KEYBOARD branch touches virtualSticks.  The step itself (action Step)
\* takes the throttle by value and writes physicsState only.
Frame(delta) ==
    LET dt == frameDt(delta)
        keyboard == settings.inputMode = "KEYBOARD"
        ramping == keyboard /\ activeKeys = {"KeyW"} /\ dt = Sixtieth
        next == IF keyboard
                THEN keyboardThrottle(virtualSticks.throttle, activeKeys, dt)
                ELSE virtualSticks.throttle
    IN  /\ frames < MaxFrames
        /\ virtualSticks' = [virtualSticks EXCEPT !.throttle = next]
        /\ frameLog' = [valid |-> TRUE, keys |-> activeKeys, dt |-> dt,
                        throttle |-> virtualSticks.throttle]
        /\ rampFrames' = IF ramping /\ rampFrames >= 0 THEN rampFrames + 1
                         ELSE IF next = 0 THEN 0 ELSE -1
        /\ frames' = frames + 1
        /\ UNCHANGED <<activeKeys, exceptKeyVars>>

NextKeyboard ==
    \/ \E code \in KeyCodes : KeyDown(code)
    \/ \E code \in KeyCodes : KeyUp(code)
    \/ \E delta \in FrameDeltas : Frame(delta)

SpecKeyboard == InitKeyboard /\ [][NextKeyboard]_vars

\* the frames of 1/60 s in 0.5 s
HalfSecond == (KeyUnit \div 2) \div Sixtieth

\* C11: in KEYBOARD mode, n frames of 1/60 s with only W held, counted from
\* throttle 0, leave the virtual throttle at n * 2/60 while that is below 1
\* and at exactly 1 from the 31st frame on, for as long as W stays held; a
\* frame in which neither W nor S is held leaves the virtual throttle as it
\* was; and the virtual throttle is within [0, 1] after every frame.
C11_KeyboardThrottle ==
    /\ settings.inputMode = "KEYBOARD" /\ rampFrames >= 0 =>
          /\ 2 * Sixtieth * rampFrames < KeyUnit =>
                 virtualSticks.throttle = 2 * Sixtieth * rampFrames
          /\ rampFrames >= HalfSecond + 1 =>
                 virtualSticks.throttle = KeyUnit
    /\ frameLog.valid /\ frameLog.keys \cap {"KeyW", "KeyS"} = {} =>
          virtualSticks.throttle = frameLog.throttle
    /\ virtualSticks.throttle >= 0 /\ virtualSticks.throttle <= KeyUnit

\* W was held for 32 frames of 1/60 s: the throttle went to 1 and stayed
C11_Witness ==
    /\ settings.inputMode = "KEYBOARD"
    /\ rampFrames = HalfSecond + 2
    /\ frameLog.throttle = KeyUnit
    /\ virtualSticks.throttle = KeyUnit

-----------------------------------------------------------------------------
(* services/physics.ts: calculateRate and applyDeadband.  Their results    *)
(* are exact fractions [n, d] with d > 0.                                   *)

\* a / b < c / d for a, c >= 0 and b, d > 0, without forming a * d
RECURSIVE FracLess(_, _, _, _)
FracLess(a, b, c, d) ==
    IF a \div b # c \div d THEN a \div b < c \div d
    ELSE IF c % d = 0 THEN FALSE
    ELSE IF a % b = 0 THEN TRUE
    ELSE FracLess(d, c % d, b, a % b)

FracEq(x, y) ==
    /\ Sign(x.n) = Sign(y.n)
    /\ ~FracLess(Abs(x.n), x.d, Abs(y.n), y.d)
    /\ ~FracLess(Abs(y.n), y.d, Abs(x.n), x.d)

\* stick inputs are counted in 1/StickDen
StickDen == 10
\* a rate profile value of the settings, in hundredths (the sliders' toFixed(2))
Hundredths(v) == v \div (Unit \div 100)

calculateRateNoExpoCurve(input, rateProfile) ==
    LET rate(rcCommand, rcRate, expo, SR) ==
            [n |-> 2 * rcRate * rcCommand * (100 - expo) * StickDen * StickDen * StickDen,
             d |-> StickDen * StickDen * StickDen
                       * (100 * StickDen - Abs(rcCommand) * SR)]
    IN  rate(IF input > StickDen THEN StickDen
             ELSE IF input < -StickDen THEN -StickDen ELSE input,
             Hundredths(rateProfile.rcRate), Hundredths(rateProfile.expo),
             IF Hundredths(rateProfile.superRate) < 99
             THEN Hundredths(rateProfile.superRate) ELSE 99)

\* calculateRate, in degrees per second:
\*   rcCommand    = max(-1, min(1, input))
\*   rcCommandExp = rcCommand * |rcCommand|^3 * expo + rcCommand * (1 - expo)
\*   SR           = min(superRate, 0.99)
\*   200 * rcRate * rcCommandExp * (1 / (1 - |rcCommand| * SR))
\* With rcCommand = c / StickDen and the profile in hundredths the product is
\*   2 * rcRate * c * (expo * |c|^3 + (100 - expo) * StickDen^3)
\*     / (StickDen^3 * (100 * StickDen - |c| * SR)).
calculateRate(input, rateProfile) ==
    LET cube(c) == c * c * c
        rcCommandExp(rcCommand, expo) ==
            rcCommand * (expo * cube(Abs(rcCommand))
                           + (100 - expo) * cube(StickDen))
        rate(rcCommand, rcRate, expo, SR) ==
            [n |-> 2 * rcRate * rcCommandExp(rcCommand, expo),
             d |-> cube(StickDen) * (100 * StickDen - Abs(rcCommand) * SR)]
    IN  rate(IF input > StickDen THEN StickDen
             ELSE IF input < -StickDen THEN -StickDen ELSE input,
             Hundredths(rateProfile.rcRate), Hundredths(rateProfile.expo),
             IF Hundredths(rateProfile.superRate) < 99
             THEN Hundredths(rateProfile.superRate) ELSE 99)

\* RateRow: maxVel = 200 * rcRate * (1 / (1 - Math.min(superRate, 0.99))),
\* before toFixed(0) rounds it for display
maxVel(profile) ==
    [n |-> 200 * Hundredths(profile.rcRate),
     d |-> 100 - (IF Hundredths(profile.superRate) < 99
                  THEN Hundredths(profile.superRate) ELSE 99)]

\* deadband values are counted in 1/Unit; the default deadband is 0.05
deadband == Unit \div 20

applyDeadbandNoRescale(value) ==
    IF Abs(value) < deadband THEN [n |-> 0, d |-> 1]
    ELSE [n |-> value - (IF value > 0 THEN deadband ELSE -deadband), d |-> Unit]

\* applyDeadband(value) with the default deadband:
\*   if (Math.abs(value) < deadband) return 0;
\*   return (value - (value > 0 ? deadband : -deadband)) / (1 - deadband)
applyDeadband(value) ==
    IF Abs(value) < deadband THEN [n |-> 0, d |-> 1]
    ELSE [n |-> value - (IF value > 0 THEN deadband ELSE -deadband),
          d |-> Unit - deadband]

\* stick positions from -1.5 to 1.5
StickInputs == -15 .. 15
\* the ends and an inner position of the three sliders of a RateRow
RcRates == {100, 1000, 2500}
SuperRates == {0, 700, 950}
Expos == {0, 200, 1000}
RateProfiles ==
    [rcRate : RcRates, superRate : SuperRates, expo : Expos]
\* axis values from -1.5 to 1.5 in hundredths, and the values next to the
\* deadband's edges and to the centre
DeadbandValues ==
    {10 * i : i \in -150 .. 150} \cup {-51, -49, -1, 1, 49, 51}

InitSticks ==
    /\ PhysIdle
    /\ HidIdle
    /\ NormIdle
    /\ SettingsIdle
    /\ ExtIdle

\* useFrame: calculateRate(stick, rates.axis)
CalculateRate(input, rateProfile) ==
    /\ rateCall' = [done |-> TRUE, input |-> input, rateProfile |-> rateProfile,
                    rate |-> calculateRate(input, rateProfile)]
    /\ UNCHANGED <<deadbandCall, exceptStickVars>>

\* useFrame: applyDeadband(raw)
ApplyDeadband(value) ==
    /\ deadbandCall' = [done |-> TRUE, value |-> value,
                        result |-> applyDeadband(value)]
    /\ UNCHANGED <<rateCall, exceptStickVars>>

NextRate ==
    \E input \in StickInputs, rateProfile \in RateProfiles :
        CalculateRate(input, rateProfile)

SpecRate == InitSticks /\ [][NextRate]_vars

NextDeadband == \E value \in DeadbandValues : ApplyDeadband(value)

SpecDeadband == InitSticks /\ [][NextDeadband]_vars

\* C12: for every rate profile of the slider ranges, calculateRate(0) is 0,
\* |calculateRate(x)| is greater than |calculateRate(y)| whenever
\* |y| < |x| <= 1, an input beyond +-1 gives what +-1 gives, and
\* calculateRate(1) is the Max Vel of the rate editor,
\* 200 * rcRate / (1 - min(superRate, 0.99)).
C12_RateCurve ==
    rateCall.done =>
        LET x == rateCall.input
            profile == rateCall.rateProfile
            rate == rateCall.rate
        IN  /\ x = 0 => rate.n = 0
            /\ Abs(x) <= StickDen =>
                  \A y \in StickInputs :
                      Abs(y) < Abs(x) =>
                          FracLess(Abs(calculateRate(y, profile).n),
                                   calculateRate(y, profile).d,
                                   Abs(rate.n), rate.d)
            /\ x > StickDen => rate = calculateRate(StickDen, profile)
            /\ x < -StickDen => rate = calculateRate(-StickDen, profile)
            /\ x = StickDen => FracEq(rate, maxVel(profile))

\* full stick with expo 1 and super rate 0.95: 20 times the rate of rcRate
C12_Witness ==
    /\ rateCall.done
    /\ rateCall.input = StickDen
    /\ rateCall.rateProfile = [rcRate |-> 2500, superRate |-> 950, expo |-> 1000]
    /\ FracEq(rateCall.rate, [n |-> 10000, d |-> 1])

\* C13: with the default deadband d = 0.05, applyDeadband(v) is 0 for
\* |v| < d and (v - sign(v) * d) / (1 - d) otherwise; so it is 0 at 0.03,
\* 1 at 1, -1 at -1, and 0 at |v| = d as it is just inside the deadband.
C13_Deadband ==
    deadbandCall.done =>
        LET v == deadbandCall.value
            result == deadbandCall.result
        IN  /\ Abs(v) < deadband => result.n = 0
            /\ Abs(v) >= deadband =>
                   FracEq(result, [n |-> v - Sign(v) * deadband,
                                   d |-> Unit - deadband])
            /\ v = 30 => result.n = 0
            /\ v = Unit => result.n = result.d
            /\ v = -Unit => result.n = -result.d
            /\ Abs(v) = deadband =>
                   /\ result.n = 0
                   /\ applyDeadband(Sign(v) * (deadband - 1)).n = result.n

\* the stick at the edge of the deadband
C13_Witness ==
    /\ deadbandCall.done
    /\ deadbandCall.value = -deadband
    /\ deadbandCall.result.n = 0

-----------------------------------------------------------------------------
(* Hover: the thrust of the four motors equal to the weight                *)

\* custom tunings (mass slider in steps of 0.005 kg, thrust slider in steps
\* of 0.1 N) for which a throttle in thousandths balances the weight exactly
HoverTunings ==
    { <<1000, 4500>>, <<400, 1800>>, <<400, 3000>>, <<400, 10900>>,
      <<2000, 9000>> }
HoverSpecs ==
    { createSpecsFromSettings([DRONE_PRESETS["CUSTOM"] EXCEPT
                                  !.mass = tuning[1], !.maxThrust = tuning[2]]) :
        tuning \in HoverTunings }

\* the throttles with 4 * maxThrust * throttle = mass * GRAVITY
hoverThrottles(sp) ==
    { throttle \in 0 .. Unit : 4 * sp.maxThrust * throttle = sp.mass * GRAVITY }

\* wind disabled, whatever the sliders of the wind panel say
CalmWinds ==
    { [DEFAULT_WIND_CONFIG EXCEPT !.baseSpeed = wind[1], !.gustStrength = wind[2],
                                  !.turbulenceScale = wind[3]] :
        wind \in { <<0, 0, 0>>, <<7000, 3000, 300>>, <<15000, 8000, 700>> } }

\* a frame of 1/60 s lies between 16 and 17 thousandths
HoverFrames == {16, 17}
HoverClock == {1500, 4000}

InitHover ==
    /\ HidIdle
    /\ NormIdle
    /\ SettingsIdle
    /\ ExtIdle
    /\ state = createInitialState
    /\ specs \in HoverSpecs
    /\ windConfig \in CalmWinds
    /\ gustPhase = 0
    /\ call = NoCall
    /\ steps = 0

NextHover ==
    \E throttle \in hoverThrottles(specs), dt \in HoverFrames, time \in HoverClock :
        Step(throttle, <<0, 0, 0>>, dt, time)

SpecHover == InitHover /\ [][NextHover]_vars

\* C14: from the initial state, with wind disabled, zero rate targets and the
\* throttle that balances the weight, every step of 1/60 s leaves the
\* velocity at zero, position.y at 2 and the angular velocity at zero.
C14_Hover ==
    call.valid =>
        /\ state.velocity = Vec(0, 0, 0)
        /\ state.position.y = 2 * Unit
        /\ state.angularVelocity = Vec(0, 0, 0)

\* a 1 kg drone with 4.5 N motors held at throttle 0.545 for two steps
C14_Witness ==
    /\ steps >= 2
    /\ specs.mass = Unit
    /\ call.throttle = 545
    /\ call.state = createInitialState
    /\ state = createInitialState

-----------------------------------------------------------------------------
(* DronePhysicsEngine.updateWindConfig and getWindConfig.  The Vector3     *)
(* objects are the elements of vectors; a reference is an index into it.   *)

MaxWindUpdates == 2

\* updateWindConfig(config):
\*   if (config.direction)
\*     this.windConfig.direction = config.direction.clone().normalize();
\*   Object.assign(this.windConfig, config);
\* The clone is a new object appended to the objects; Object.assign then
\* copies every property config has, direction included, by reference.
updateWindConfig(objects, ref, wc, config) ==
    LET cloned == IF "direction" \in config.fields
                  THEN Append(objects, VNormalize(objects[config.direction]))
                  ELSE objects
        normalizedRef == IF "direction" \in config.fields THEN Len(cloned) ELSE ref
        assignedRef == IF "direction" \in config.fields THEN config.direction
                       ELSE normalizedRef
    IN  [vectors |-> cloned,
         directionRef |-> assignedRef,
         windConfig |->
            [field \in DOMAIN wc |->
                IF field = "direction" THEN cloned[assignedRef]
                ELSE IF field \in config.fields THEN config[field]
                ELSE wc[field]]]

\* getWindConfig(): { ...this.windConfig, direction: direction.clone() };
\* the clone is an object of its own, past the end of the objects so far
getWindConfig ==
    [config |-> windConfig, directionRef |-> Len(vectors) + 1]

\* direction vectors a caller may supply: unit vectors, as the Drone's wind
\* effect makes them, and longer or shorter ones
CallerDirections ==
    { Vec(0, 0, Unit), Vec(Unit, 0, 0), Vec(0, 0, 2 * Unit),
      Vec(3 * Unit, 0, 4 * Unit), Vec(0, 300, 400) }
WindFieldSets == SUBSET {"enabled", "baseSpeed", "direction"}
WindSpeeds == {3000, 7000}

InitWind ==
    /\ HidIdle
    /\ NormIdle
    /\ SettingsIdle
    /\ ExtIdle
    /\ state = createInitialState
    /\ specs = DEFAULT_DRONE_SPECS
    /\ windConfig = DEFAULT_WIND_CONFIG
    /\ gustPhase = 0
    /\ call = NoCall
    /\ steps = 0

\* a caller builds a config, with a direction vector of its own when it
\* supplies one, and calls updateWindConfig
UpdateWindConfig(fields, enabled, baseSpeed, direction) ==
    LET objects == IF "direction" \in fields THEN Append(vectors, direction)
                   ELSE vectors
        config == [NoWindCall EXCEPT
                     !.valid = TRUE,
                     !.fields = fields,
                     !.enabled = IF "enabled" \in fields THEN enabled ELSE @,
                     !.baseSpeed = IF "baseSpeed" \in fields THEN baseSpeed ELSE @,
                     !.direction = IF "direction" \in fields THEN Len(objects) ELSE @]
        updated(result) ==
            /\ vectors' = result.vectors
            /\ directionRef' = result.directionRef
            /\ windConfig' = result.windConfig
    IN  /\ windUpdates < MaxWindUpdates
        /\ updated(updateWindConfig(objects, directionRef, windConfig, config))
        /\ windCall' = config
        /\ windUpdates' = windUpdates + 1
        /\ UNCHANGED <<state, call, specs, gustPhase, steps, exceptWindVars>>

NextWind ==
    \E fields \in WindFieldSets, enabled \in BOOLEAN, baseSpeed \in WindSpeeds,
       direction \in CallerDirections :
        UpdateWindConfig(fields, enabled, baseSpeed, direction)

SpecWind == InitWind /\ [][NextWind]_vars

\* C15: after a call of updateWindConfig that supplies a direction vector of
\* non-zero length, the direction stored in the wind configuration, and the
\* one getWindConfig returns, has length 1, and the stored direction is not
\* the caller's vector object.
C15_DirectionNormalizedCopy ==
    windCall.valid /\ "direction" \in windCall.fields
        /\ VLength(vectors[windCall.direction]) > 0 =>
            /\ VLength(vectors[directionRef]) = Unit
            /\ VLength(getWindConfig.config.direction) = Unit
            /\ directionRef # windCall.direction

-----------------------------------------------------------------------------
(* DronePhysicsEngine.step on objects: a PhysicsState holds references to  *)
(* three Vector3 and one Quaternion; a reference is an index into objects.  *)

StateFields == {"position", "velocity", "quaternion", "angularVelocity"}

\* the values a state's references stand for
deref(heap, refs) == [field \in StateFields |-> heap[refs[field]]]

\* mutant of clone: the receiver itself
cloneShared(heap, ref) == [objects |-> heap, ref |-> ref]

\* Vector3.clone / Quaternion.clone: a new object with the receiver's value
clone(heap, ref) == [objects |-> Append(heap, heap[ref]), ref |-> Len(heap) + 1]

\* createInitialState(): four new objects
allocInitialState(heap) ==
    [objects |-> heap \o <<createInitialState.position, createInitialState.velocity,
                            createInitialState.quaternion,
                            createInitialState.angularVelocity>>,
     refs |-> [position |-> Len(heap) + 1, velocity |-> Len(heap) + 2,
               quaternion |-> Len(heap) + 3, angularVelocity |-> Len(heap) + 4]]

\* step, as far as objects go: newAngularVelocity, newVelocity, newPosition
\* and newQuaternion are clones of the input state's objects, updated in
\* place (addScaledVector, multiply, normalize, the ground collision) to the
\* values new; every other vector step makes is a temporary.  The NaN check
\* returns createInitialState() instead.
stepObjects(heap, refs, new) ==
    LET updated(a, v, p, q) ==
            [objects |-> [q.objects EXCEPT ![a.ref] = new.angularVelocity,
                                           ![v.ref] = new.velocity,
                                           ![p.ref] = new.position,
                                           ![q.ref] = new.quaternion],
             refs |-> [position |-> p.ref, velocity |-> v.ref,
                       quaternion |-> q.ref, angularVelocity |-> a.ref]]
        withQuaternion(a, v, p) == updated(a, v, p, clone(p.objects, refs.quaternion))
        withPosition(a, v) == withQuaternion(a, v, clone(v.objects, refs.position))
        withVelocity(a) == withPosition(a, clone(a.objects, refs.velocity))
        check(result) ==
            IF nanDetected(new) THEN allocInitialState(result.objects) ELSE result
    IN  check(withVelocity(clone(heap, refs.angularVelocity)))

\* a state whose velocity is not a number any more
NaNStates == { Poison(createInitialState, "vx") }

InitObjects ==
    /\ HidIdle
    /\ NormIdle
    /\ SettingsIdle
    /\ IdleButObjects
    /\ state \in InputStates \cup NaNStates
    /\ stateObjects = <<state.position, state.velocity, state.quaternion,
                   state.angularVelocity>>
    /\ stateRefs = [position |-> 1, velocity |-> 2, quaternion |-> 3,
                    angularVelocity |-> 4]
    /\ inputRefs = NoRefs
    /\ specs \in ModelSpecs
    /\ windConfig = DEFAULT_WIND_CONFIG
    /\ gustPhase = 0
    /\ call = NoCall
    /\ steps = 0

\* useFrame: physicsState.current = physicsEngine.step(physicsState.current, ...)
StepObjects(throttle, rates, dt, time) ==
    LET returned(result) ==
            /\ stateObjects' = result.objects
            /\ stateRefs' = result.refs
            /\ state' = deref(result.objects, result.refs)
    IN  /\ steps < MaxSteps
        /\ returned(stepObjects(stateObjects, stateRefs,
               groundCollision(integrate(specs, windConfig, gustPhase,
                                         deref(stateObjects, stateRefs), throttle,
                                         rates[1], rates[2], rates[3], dt, time))))
        /\ inputRefs' = stateRefs
        /\ gustPhase' = calculateWindVelocity(windConfig, gustPhase, time,
                                              state.position).gustPhase
        /\ call' = [valid |-> TRUE, state |-> deref(stateObjects, stateRefs),
                    throttle |-> throttle, rates |-> rates, dt |-> dt,
                    time |-> time, gustPhase |-> gustPhase]
        /\ steps' = steps + 1
        /\ UNCHANGED <<specs, windConfig, exceptObjVars>>

NextObjects ==
    \E throttle \in Throttles, rates \in RateTargets, dt \in FrameTimes,
       time \in ClockTimes : StepObjects(throttle, rates, dt, time)

SpecObjects == InitObjects /\ [][NextObjects]_vars

\* C16: after step returns, on the normal path and on the NaN-reset path,
\* the position, velocity, quaternion and angularVelocity objects of the
\* state passed in hold the values they held before the call, and none of
\* them is an object of the returned state.
C16_StepLeavesInput ==
    call.valid =>
        /\ \A field \in StateFields :
               stateObjects[inputRefs[field]] = call.state[field]
        /\ \A field \in StateFields, other \in StateFields :
               stateRefs[field] # inputRefs[other]

\* a step that moved the drone; its input still reads as before
C16_Witness ==
    /\ call.valid
    /\ ~nanDetected(call.state)
    /\ state.position # call.state.position
    /\ state.angularVelocity # call.state.angularVelocity
    /\ stateObjects[inputRefs.position] = call.state.position

\* the same on the NaN-reset path
C16_WitnessReset ==
    /\ call.valid
    /\ nanDetected(call.state)
    /\ state = createInitialState
    /\ stateObjects[inputRefs.velocity] = call.state.velocity

-----------------------------------------------------------------------------
(* The wind direction: SettingsPanel's slider and compass label, and the   *)
(* Drone effect that pushes the wind settings into the engine               *)

\* THREE.MathUtils.degToRad
degToRad(degrees) == RoundDiv(degrees * Pi, 180)

windDirectionSwapped(angle) ==
    Vec(Cos(degToRad(angle)), 0, Sin(degToRad(angle)))

\* new THREE.Vector3(Math.sin(angleRad), 0, Math.cos(angleRad))
windDirection(angle) ==
    Vec(Sin(degToRad(angle)), 0, Cos(degToRad(angle)))

directions == <<"N", "NE", "E", "SE", "S", "SW", "W", "NW">>

\* Math.round of n / d for d > 0: the nearest integer, halves upwards
MathRound(n, d) == (2 * n + d) \div (2 * d)

\* getWindDirectionLabel: directions[Math.round(angle / 45) % 8]
getWindDirectionLabel(angle) == directions[(MathRound(angle, 45) % 8) + 1]

\* the Drone's wind effect: a new direction vector, then updateWindConfig
\* with all six fields of the wind settings
windEffect(objects, ref, wc, windSettings) ==
    LET pushed(config) ==
            [config |-> config,
             result |-> updateWindConfig(
                            Append(objects, windDirection(windSettings.directionAngle)),
                            ref, wc, config)]
    IN  pushed([valid |-> TRUE,
                fields |-> {"enabled", "baseSpeed", "direction", "gustStrength",
                            "gustFrequency", "turbulenceScale"},
                enabled |-> windSettings.enabled,
                baseSpeed |-> windSettings.baseSpeed,
                direction |-> Len(objects) + 1,
                gustStrength |-> windSettings.gustStrength,
                gustFrequency |-> windSettings.gustFrequency,
                turbulenceScale |-> windSettings.turbulenceScale])

MaxSlides == 1
\* the slider: 0 to 359 in steps of 15
SliderAngles == { 15 * i : i \in 0 .. 23 }
\* angles a windSettings prop may carry
LabelAngles == SliderAngles \cup {360}

\* App and Drone mounted on an empty localStorage: the wind effect has run
InitCompass ==
    LET mounted(effect) ==
            /\ vectors = effect.result.vectors
            /\ directionRef = effect.result.directionRef
            /\ windConfig = effect.result.windConfig
            /\ windCall = effect.config
    IN  /\ HidIdle
        /\ NormIdle
        /\ SettingsIdle
        /\ IdleButWind
        /\ mounted(windEffect(<<DEFAULT_WIND_CONFIG.direction>>, 1,
                              DEFAULT_WIND_CONFIG,
                              loadSettings(NoItem).windSettings))
        /\ windUpdates = 0
        /\ state = createInitialState
        /\ specs = DEFAULT_DRONE_SPECS
        /\ gustPhase = 0
        /\ call = NoCall
        /\ steps = 0

\* the Wind Direction slider moved: setWindSettings, the persist effect, the
\* row rendered with the new angle, and the Drone's wind effect
WindDirectionSlider(angle) ==
    LET changed(new) ==
            /\ settings' = new
            /\ localStorage' = persist(new)
            /\ before' = settings
        pushed(effect) ==
            /\ vectors' = effect.result.vectors
            /\ directionRef' = effect.result.directionRef
            /\ windConfig' = effect.result.windConfig
            /\ windCall' = effect.config
    IN  /\ windUpdates < MaxSlides
        /\ changed([settings EXCEPT !.windSettings.directionAngle = angle])
        /\ settingsOp' = [kind |-> "set", name |-> "windSettings", value |-> angle]
        /\ edits' = edits + 1
        /\ windLabel' = [angle |-> angle, label |-> getWindDirectionLabel(angle)]
        /\ pushed(windEffect(vectors, directionRef, windConfig,
                             [settings.windSettings EXCEPT !.directionAngle = angle]))
        /\ windUpdates' = windUpdates + 1
        /\ UNCHANGED <<state, call, specs, gustPhase, steps, hidVars, normVars,
                       keyVars, stickVars, objVars, connVars, hudVars, wizVars, resetVars, subVars, padVars>>

\* the row rendered for a windSettings prop of some angle
RenderWindLabel(angle) ==
    /\ windLabel' = [angle |-> angle, label |-> getWindDirectionLabel(angle)]
    /\ UNCHANGED <<physVars, settingsVars, windVars, exceptCompassVars>>

NextCompass ==
    \/ \E angle \in SliderAngles : WindDirectionSlider(angle)
    \/ \E angle \in LabelAngles : RenderWindLabel(angle)

SpecCompass == InitCompass /\ [][NextCompass]_vars

\* the angle between two bearings, the short way round
BearingGap(a, b) ==
    IF (a - b) % 360 <= 180 THEN (a - b) % 360 ELSE 360 - ((a - b) % 360)

\* C17: the direction pushed into the engine for directionAngle a is
\* (sin a, 0, cos a), which is (0, 0, 1) at 0 and (1, 0, 0) at 90; the label
\* maps 0, 45, ..., 315 to N, NE, E, SE, S, SW, W, NW and 360 to N, and for
\* every slider value it is the nearest of the eight compass points.
C17_WindDirection ==
    /\ windCall.valid =>
          LET a == settings.windSettings.directionAngle
              pushed == vectors[windCall.direction]
          IN  /\ pushed = Vec(Sin(degToRad(a)), 0, Cos(degToRad(a)))
              /\ a = 0 => pushed = Vec(0, 0, Unit)
              /\ a = 90 => pushed = Vec(Unit, 0, 0)
    /\ LET a == windLabel.angle
           label == windLabel.label
       IN  /\ a % 45 = 0 => label = directions[((a \div 45) % 8) + 1]
           /\ a = 360 => label = "N"
           /\ a \in SliderAngles =>
                 \E i \in 1 .. 8 :
                     /\ label = directions[i]
                     /\ \A j \in 1 .. 8 :
                            BearingGap(a, 45 * (i - 1)) <= BearingGap(a, 45 * (j - 1))

\* the slider at 90 degrees: the wind blows along +x and the row reads E
C17_Witness ==
    /\ windCall.valid
    /\ settings.windSettings.directionAngle = 90
    /\ vectors[windCall.direction] = Vec(Unit, 0, 0)
    /\ windLabel = [angle |-> 90, label |-> "E"]

-----------------------------------------------------------------------------
(* WebHIDController.requestDevice and connect.  A call runs from one await *)
(* to the next in one action; what the browser answers is chosen freely.    *)

MaxCalls == 3

\* what isConnected and the connecting flag read
status(svc) == [isConnected |-> svc.isConnected, isConnecting |-> svc.isConnecting]

\* mutant of connectCatch: the flag left set
connectCatchStuck(svc) == svc

\* connect, catch (error): this._isConnecting = false
connectCatch(svc) == [svc EXCEPT !.isConnecting = FALSE]

\* connect, after the device is open: this._isConnected = true;
\* this._isConnecting = false
connectDone(svc) == [svc EXCEPT !.isConnected = TRUE, !.isConnecting = FALSE]

\* a call settled: what it resolved to, why, and the flags it leaves
settled(inFlight, result, cause, svc) ==
    [inFlight EXCEPT !.pc = "done", !.result = result, !.cause = cause,
                     !.after = status(svc)]

NoneInFlight == \A slot \in CallSlots : hidCalls[slot].pc \in {"idle", "done"}

\* the page in a browser with or without WebHID
InitConnect ==
    /\ PhysIdle
    /\ HidIdle
    /\ NormIdle
    /\ SettingsIdle
    /\ IdleButConn
    /\ service = [device |-> 0, isConnected |-> FALSE, isConnecting |-> FALSE]
    /\ opened = {}
    /\ inputListeners = [device \in HidDevices |-> 0]
    /\ hidCalls = [slot \in CallSlots |-> NoHidCall]
    /\ callsMade = 0
    /\ hasHid \in BOOLEAN

\* requestDevice() up to its first await: without navigator.hid it returns
\* false, otherwise it waits for the picker
RequestDevice(slot) ==
    LET started == [NoHidCall EXCEPT !.seq = callsMade + 1,
                                     !.before = status(service),
                                     !.after = status(service)]
    IN  /\ callsMade < MaxCalls
        /\ hidCalls[slot].pc \in {"idle", "done"}
        /\ callsMade' = callsMade + 1
        /\ hidCalls' = [hidCalls EXCEPT ![slot] =
                           IF hasHid THEN [started EXCEPT !.pc = "picker"]
                           ELSE settled(started, "false", "noHid", service)]
        /\ UNCHANGED <<service, opened, inputListeners, hasHid, exceptConnVars>>

\* the picker resolves with devices: none selected returns false; otherwise
\* this.device = devices[0] and connect() runs up to its await of open(),
\* or to its end when the device is open already or a connection exists
PickerResolves(slot, devices) ==
    LET inFlight == hidCalls[slot]
        chosen == [service EXCEPT !.device = devices[1]]
    IN  /\ inFlight.pc = "picker"
        /\ IF devices = <<>>
           THEN /\ hidCalls' = [hidCalls EXCEPT ![slot] =
                                   settled(inFlight, "false", "noDevice", service)]
                /\ UNCHANGED <<service, inputListeners>>
           ELSE IF service.isConnecting \/ service.isConnected
           THEN /\ service' = chosen
                /\ hidCalls' = [hidCalls EXCEPT ![slot] =
                                   settled(inFlight,
                                           IF service.isConnected THEN "true" ELSE "false",
                                           "busy", chosen)]
                /\ UNCHANGED inputListeners
           ELSE IF devices[1] \in opened
           THEN /\ service' = connectDone(chosen)
                /\ inputListeners' = [inputListeners EXCEPT ![devices[1]] = @ + 1]
                /\ hidCalls' = [hidCalls EXCEPT ![slot] =
                                   settled(inFlight, "true", "connected",
                                           connectDone(chosen))]
           ELSE /\ service' = [chosen EXCEPT !.isConnecting = TRUE]
                /\ hidCalls' = [hidCalls EXCEPT ![slot] =
                                   [inFlight EXCEPT !.pc = "open",
                                                    !.device = devices[1]]]
                /\ UNCHANGED inputListeners
        /\ UNCHANGED <<opened, callsMade, hasHid, exceptConnVars>>

\* the picker rejects: requestDevice's catch returns false
PickerRejects(slot) ==
    /\ hidCalls[slot].pc = "picker"
    /\ hidCalls' = [hidCalls EXCEPT ![slot] =
                       settled(hidCalls[slot], "false", "pickerRejected", service)]
    /\ UNCHANGED <<service, opened, inputListeners, callsMade, hasHid,
                   exceptConnVars>>

\* device.open() resolves: the listener is added to this.device and the
\* flags are set; a this.device that is null by now throws into the catch
OpenResolves(slot) ==
    LET inFlight == hidCalls[slot]
    IN  /\ inFlight.pc = "open"
        /\ opened' = opened \cup {inFlight.device}
        /\ IF service.device = 0
           THEN /\ service' = connectCatch(service)
                /\ hidCalls' = [hidCalls EXCEPT ![slot] =
                                   settled(inFlight, "false", "error",
                                           connectCatch(service))]
                /\ UNCHANGED inputListeners
           ELSE /\ service' = connectDone(service)
                /\ inputListeners' = [inputListeners EXCEPT ![service.device] = @ + 1]
                /\ hidCalls' = [hidCalls EXCEPT ![slot] =
                                   settled(inFlight, "true", "connected",
                                           connectDone(service))]
        /\ UNCHANGED <<callsMade, hasHid, exceptConnVars>>

\* device.open() rejects: connect's catch clears the connecting flag and
\* returns false
OpenRejects(slot) ==
    LET inFlight == hidCalls[slot]
    IN  /\ inFlight.pc = "open"
        /\ service' = connectCatch(service)
        /\ hidCalls' = [hidCalls EXCEPT ![slot] =
                           settled(inFlight, "false", "openFailed",
                                   connectCatch(service))]
        /\ UNCHANGED <<opened, inputListeners, callsMade, hasHid, exceptConnVars>>

\* what the picker may resolve with
PickerAnswers == {<<>>} \cup { <<device>> : device \in HidDevices }

\* the Connect button pressed again only after the last call has settled
NextConnect ==
    \/ \E slot \in CallSlots : NoneInFlight /\ RequestDevice(slot)
    \/ \E slot \in CallSlots, devices \in PickerAnswers : PickerResolves(slot, devices)
    \/ \E slot \in CallSlots : PickerRejects(slot)
    \/ \E slot \in CallSlots : OpenResolves(slot)
    \/ \E slot \in CallSlots : OpenRejects(slot)

SpecConnect == InitConnect /\ [][NextConnect]_vars

\* C18: a requestDevice() call that ends because the platform has no HID
\* capability, the picker returned no device or opening the chosen device
\* failed resolves to false, never rejects, and leaves a service that was
\* disconnected before the call disconnected and not connecting.
C18_FailedRequest ==
    \A slot \in CallSlots :
        LET inFlight == hidCalls[slot]
        IN  /\ inFlight.result \in {"pending", "true", "false"}
            /\ inFlight.pc = "done"
                 /\ inFlight.cause \in {"noHid", "noDevice", "openFailed"}
                 /\ inFlight.before = NoService =>
                    /\ inFlight.result = "false"
                    /\ inFlight.after = NoService
                    /\ (inFlight.seq = callsMade => status(service) = NoService)

\* opening the device failed, and the next attempt connected
C18_Witness ==
    \E slot \in CallSlots, later \in CallSlots :
        /\ hidCalls[slot].cause = "openFailed"
        /\ hidCalls[slot].result = "false"
        /\ hidCalls[later].seq = hidCalls[slot].seq + 1
        /\ hidCalls[later].result = "true"
        /\ hidCalls[later].cause = "connected"
        /\ service.isConnected

-----------------------------------------------------------------------------
(* The HUD's status badge, and the App state it is rendered from           *)

\* App: controllerConnected={inputMode === 'WEBHID' ? hidConnected
\*                                                  : controllerConnected}
controllerConnectedProp(inputMode, hid, gamepad) ==
    IF inputMode = "WEBHID" THEN hid ELSE gamepad

\* HUD, top bar: inputMode === 'GAMEPAD' ? the gamepad badge, with a hint
\* when not connected : the keyboard badge
HUD(inputMode, connected) ==
    IF inputMode = "GAMEPAD"
    THEN [icon |-> "Gamepad2",
          color |-> IF connected THEN "green" ELSE "red",
          text |-> IF connected THEN "CONTROLLER CONNECTED" ELSE "NO CONTROLLER",
          hint |-> ~connected]
    ELSE [icon |-> "Keyboard", color |-> "blue", text |-> "KEYBOARD MODE",
          hint |-> FALSE]

\* App renders the HUD from its state
render(inputMode, hid, gamepad) ==
    HUD(inputMode, controllerConnectedProp(inputMode, hid, gamepad))

\* the page loaded, with or without a gamepad plugged in
InitHUD ==
    /\ PhysIdle
    /\ HidIdle
    /\ NormIdle
    /\ SettingsIdle
    /\ IdleButHud
    /\ controllerConnected \in BOOLEAN
    /\ hidConnected = FALSE
    /\ hud = render(settings.inputMode, hidConnected, controllerConnected)

\* a state setter of the persisted settings, the persist effect, the render
HudChange(new, name) ==
    /\ edits < MaxEdits
    /\ settings' = new
    /\ localStorage' = persist(new)
    /\ before' = settings
    /\ settingsOp' = [kind |-> "set", name |-> name, value |-> 0]
    /\ edits' = edits + 1
    /\ hud' = render(new.inputMode, hidConnected, controllerConnected)
    /\ UNCHANGED <<controllerConnected, hidConnected, exceptHudVars>>

\* the input mode buttons of the settings panel
HudSetInputMode(mode) ==
    HudChange([settings EXCEPT !.inputMode = mode], "inputMode")

\* the camera mode buttons
HudSetCameraMode(mode) ==
    HudChange([settings EXCEPT !.cameraMode = mode], "cameraMode")

\* gamepadconnected / gamepaddisconnected: setControllerConnected
GamepadEvent(connected) ==
    /\ controllerConnected' = connected
    /\ hud' = render(settings.inputMode, hidConnected, connected)
    /\ UNCHANGED <<hidConnected, settingsVars, exceptHudVars>>

\* setHidConnected, from tryReconnect's result or from a report received
SetHidConnected(connected) ==
    /\ hidConnected' = connected
    /\ hud' = render(settings.inputMode, connected, controllerConnected)
    /\ UNCHANGED <<controllerConnected, settingsVars, exceptHudVars>>

\* handleConnectHID after requestDevice settled: setHidConnected(connected)
\* and, when connected, setInputMode('WEBHID') with its persist effect
ConnectHID(connected) ==
    LET new == IF connected THEN [settings EXCEPT !.inputMode = "WEBHID"]
               ELSE settings
    IN  /\ edits < MaxEdits
        /\ hidConnected' = connected
        /\ settings' = new
        /\ localStorage' = persist(new)
        /\ before' = settings
        /\ settingsOp' = [kind |-> "set", name |-> "connectHID", value |-> 0]
        /\ edits' = edits + 1
        /\ hud' = render(new.inputMode, connected, controllerConnected)
        /\ UNCHANGED <<controllerConnected, exceptHudVars>>

NextHUD ==
    \/ \E mode \in InputModes : HudSetInputMode(mode)
    \/ \E mode \in CameraModes : HudSetCameraMode(mode)
    \/ \E connected \in BOOLEAN : GamepadEvent(connected)
    \/ \E connected \in BOOLEAN : SetHidConnected(connected)
    \/ \E connected \in BOOLEAN : ConnectHID(connected)

SpecHUD == InitHUD /\ [][NextHUD]_vars

\* C19: the badge is specific to the input mode: in GAMEPAD mode it shows
\* whether the gamepad is connected, in WEBHID mode it shows the HID
\* connection status, and the KEYBOARD MODE badge is shown only when the
\* input mode is KEYBOARD.
C19_BadgePerMode ==
    /\ settings.inputMode = "GAMEPAD" =>
          /\ hud = HUD("GAMEPAD", controllerConnected)
          /\ hud.text = IF controllerConnected THEN "CONTROLLER CONNECTED"
                        ELSE "NO CONTROLLER"
    /\ settings.inputMode = "WEBHID" =>
          /\ hud = HUD("WEBHID", hidConnected)
          /\ HUD("WEBHID", TRUE) # HUD("WEBHID", FALSE)
    /\ hud.text = "KEYBOARD MODE" => settings.inputMode = "KEYBOARD"

-----------------------------------------------------------------------------
(* HIDCalibrationModal: Capture Center, the auto-expand interval of step 2 *)
(* and Finish.  Time advances in ticks of TickMs milliseconds.              *)

TickMs == 10
\* setInterval(..., 50)
IntervalMs == 5 * TickMs

\* getCurrentValues: hidChannels[channelMap.axis] ?? 0
getCurrentValues(channels, channelMap) ==
    [axis \in Axes |->
        IF channelMap[axis] + 1 \in DOMAIN channels
        THEN channels[channelMap[axis] + 1] ELSE 0]

\* the interval's callback: min and max of every axis widened to the value
autoExpand(prev, values) ==
    [axis \in Axes |->
        [prev[axis] EXCEPT
            !.min = IF values[axis] < @ THEN values[axis] ELSE @,
            !.max = IF values[axis] > @ THEN values[axis] ELSE @]]

\* captureCenter: center, min and max of every axis set to the value
captureCenter(cal, values) ==
    [axis \in Axes |->
        [cal[axis] EXCEPT !.center = values[axis], !.min = values[axis],
                          !.max = values[axis]]]

\* the readings of a report added to the extremes seen so far
widen(seen, values) ==
    [axis \in Axes |->
        [min |-> IF values[axis] < seen[axis].min THEN values[axis]
                 ELSE seen[axis].min,
         max |-> IF values[axis] > seen[axis].max THEN values[axis]
                 ELSE seen[axis].max]]

\* reports: sticks centred, roll right, roll left, throttle up
\* (channels 0..7; by default yaw 0, throttle 1, roll 2, pitch 3)
WizardReports ==
    { <<0, 0, 0, 0, 0, 0, 0, 0>>,
      <<0, 0, AxisUnit, 0, 0, 0, 0, 0>>,
      <<0, 0, -AxisUnit, 0, 0, 0, 0, 0>>,
      <<0, AxisUnit, 0, 0, 0, 0, 0, 0>> }

\* the settings panel with the HID calibration wizard just opened
InitWizard ==
    /\ PhysIdle
    /\ HidIdle
    /\ NormIdle
    /\ SettingsIdle
    /\ IdleButWiz
    /\ hidChannels \in WizardReports
    /\ wizard = [shown |-> TRUE, step |-> 1, saved |-> FALSE]
    /\ tempCal = settings.calibration
    /\ intervalElapsed = -1
    /\ observed = [axis \in Axes |-> [min |-> 0, max |-> 0]]
    /\ quiet = 0

\* App's subscription: setHidChannels(channels), setHidConnected(true).
\* The modal renders with the new array; in step 2 its effect, which
\* depends on hidChannels, clears the interval and sets a new one.
\* (handleInputReport builds a new array for every report it parses, so
\* every report is a change of hidChannels.)
HidChannels(channels) ==
    LET values == getCurrentValues(channels, settings.channelMap)
    IN  /\ wizard.shown
        /\ hidChannels' = channels
        /\ hidConnected' = TRUE
        /\ hud' = render(settings.inputMode, TRUE, controllerConnected)
        /\ intervalElapsed' = IF wizard.step = 2 THEN 0 ELSE intervalElapsed
        /\ observed' = IF wizard.step = 2 THEN widen(observed, values) ELSE observed
        /\ quiet' = IF wizard.step = 2 /\ widen(observed, values) # observed
                    THEN 0 ELSE quiet
        /\ UNCHANGED <<wizard, tempCal, controllerConnected, settingsVars,
                       keyVars, stickVars, windVars, objVars, compassVars,
                       connVars, physVars, hidVars, normVars, resetVars, subVars, padVars>>

\* TickMs pass in step 2; the interval's callback runs when 50 ms have
\* passed since the interval was set or last ran
Tick ==
    /\ wizard.shown
    /\ wizard.step = 2
    /\ IF intervalElapsed + TickMs >= IntervalMs
       THEN /\ intervalElapsed' = 0
            /\ tempCal' = autoExpand(tempCal,
                              getCurrentValues(hidChannels, settings.channelMap))
       ELSE /\ intervalElapsed' = intervalElapsed + TickMs
            /\ UNCHANGED tempCal
    /\ quiet' = IF quiet + TickMs >= IntervalMs THEN IntervalMs ELSE quiet + TickMs
    /\ UNCHANGED <<hidChannels, wizard, observed, settingsVars, exceptWizVars>>

\* the Capture Center button: captureCenter, setStep(2), the interval set
CaptureCenter ==
    LET values == getCurrentValues(hidChannels, settings.channelMap)
    IN  /\ wizard.shown
        /\ wizard.step = 1
        /\ tempCal' = captureCenter(tempCal, values)
        /\ wizard' = [wizard EXCEPT !.step = 2]
        /\ intervalElapsed' = 0
        /\ observed' = [axis \in Axes |-> [min |-> values[axis], max |-> values[axis]]]
        /\ quiet' = 0
        /\ UNCHANGED <<hidChannels, settingsVars, exceptWizVars>>

\* the Back button: setStep(1), the interval cleared
Back ==
    /\ wizard.shown
    /\ wizard.step = 2
    /\ wizard' = [wizard EXCEPT !.step = 1]
    /\ intervalElapsed' = -1
    /\ UNCHANGED <<hidChannels, tempCal, observed, quiet, settingsVars,
                   exceptWizVars>>

\* Finish & Save: onSave(tempCal), that is setCalibration(tempCal) with its
\* persist effect, and the wizard closed
Finish ==
    LET new == [settings EXCEPT !.calibration = tempCal]
    IN  /\ wizard.shown
        /\ wizard.step = 2
        /\ settings' = new
        /\ localStorage' = persist(new)
        /\ before' = settings
        /\ settingsOp' = [kind |-> "set", name |-> "calibration", value |-> 0]
        /\ edits' = edits + 1
        /\ wizard' = [wizard EXCEPT !.shown = FALSE, !.saved = TRUE]
        /\ intervalElapsed' = -1
        /\ UNCHANGED <<hidChannels, tempCal, observed, quiet, exceptWizVars>>

NextWizard ==
    \/ \E channels \in WizardReports : HidChannels(channels)
    \/ Tick
    \/ CaptureCenter
    \/ Back
    \/ Finish

SpecWizard == InitWizard /\ [][NextWizard]_vars

\* C20: whatever the arrival pattern of the reports, the values the mapped
\* channels held during step 2 are included in the axes' ranges, so that at
\* Finish every axis's min and max are the least and the greatest of the
\* captured center and the readings observed during step 2.  Stated for a
\* Finish pressed no sooner than one interval after the last reading that
\* was a new extreme.
C20_RangeCoversReadings ==
    wizard.saved /\ quiet >= IntervalMs =>
        \A axis \in Axes :
            /\ settings.calibration[axis].min = observed[axis].min
            /\ settings.calibration[axis].max = observed[axis].max

-----------------------------------------------------------------------------
(* The ground, the spin and the gust phase over sequences of step calls *)

\* C27: every state step returns, from finite states at or above the ground
\* and with finite throttle, rate targets and dt, has position.y >= 0.05.
C27_AboveGround ==
    /\ ~IsNaN(state.position.y)
    /\ state.position.y >= groundHeight

\* C27 witness: a second step in a row whose integrated position was below
\* the ground and whose returned position is on it
C27_Witness ==
    /\ call.valid
    /\ steps = MaxSteps
    /\ Integrated.position.y < groundHeight
    /\ state.position.y = groundHeight

\* spinning drones in the air, sticks centred
SpinStates ==
    { [createInitialState EXCEPT !.angularVelocity = w] :
        w \in { Vec(2000, 0, 0), Vec(0, -1000, 2000), Vec(20000, 20000, 10000) } }
SpinFrameTimes == {16, 33, maxDt}

InitSpin ==
    /\ ExtIdle
    /\ HidIdle
    /\ NormIdle
    /\ SettingsIdle
    /\ state \in SpinStates
    /\ specs \in { createSpecsFromSettings(DRONE_PRESETS[p]) : p \in DOMAIN DRONE_PRESETS }
    /\ windConfig = DEFAULT_WIND_CONFIG
    /\ gustPhase = 0
    /\ call = NoCall
    /\ steps = 0

NextSpin ==
    \E throttle \in Throttles, dt \in SpinFrameTimes, time \in ClockTimes :
        Step(throttle, <<0, 0, 0>>, dt, time)

SpecSpin == InitSpin /\ [][NextSpin]_vars

\* C29: for every preset and every dt in (0, 0.05], a step with zero rate
\* targets that does not touch the ground returns an angular velocity no
\* greater in magnitude than the input state's (up to the rounding allowance).
C29_SpinNeverGrows ==
    (/\ call.valid
     /\ call.rates = <<0, 0, 0>>
     /\ call.dt > 0 /\ call.dt <= maxDt
     /\ Integrated.position.y >= groundHeight)
        => VLength(state.angularVelocity)
               <= VLength(call.state.angularVelocity) + RoundingTol

-----------------------------------------------------------------------------
(* The gust phase, with the wind settings changed between steps *)

\* wind settings: the switch off and on, gusts of 0 and 3 m/s, at 0.5 and 1 Hz
GustSettings ==
    { [DEFAULT_WIND_SETTINGS EXCEPT !.enabled = e, !.baseSpeed = 3000,
                                    !.gustStrength = g, !.gustFrequency = f] :
        e \in BOOLEAN, g \in {0, 3000}, f \in {500, 1000} }
GustFrameTimes == {0, 16, 200}
GustClockTimes == {0, 1500}

\* App and Drone mounted on saved wind settings: the wind effect has run
InitGust ==
    LET mounted(effect) ==
            /\ vectors = effect.result.vectors
            /\ directionRef = effect.result.directionRef
            /\ windConfig = effect.result.windConfig
            /\ windCall = effect.config
        loaded(s) ==
            /\ settings = s
            /\ localStorage = persist(s)
            /\ before = s
            /\ mounted(windEffect(<<DEFAULT_WIND_CONFIG.direction>>, 1,
                                  DEFAULT_WIND_CONFIG, s.windSettings))
    IN  /\ HidIdle
        /\ NormIdle
        /\ IdleButWind
        /\ \E ws \in GustSettings :
              loaded([loadSettings(NoItem) EXCEPT !.windSettings = ws])
        /\ settingsOp = NoOp
        /\ edits = 0
        /\ windUpdates = 0
        /\ state = createInitialState
        /\ specs = DEFAULT_DRONE_SPECS
        /\ gustPhase = 0
        /\ call = NoCall
        /\ steps = 0

\* a control of the Wind section changed: setWindSettings, the persist
\* effect, and the Drone's wind effect
SetWindSettings(ws) ==
    LET changed(new) ==
            /\ settings' = new
            /\ localStorage' = persist(new)
            /\ before' = settings
        pushed(effect) ==
            /\ vectors' = effect.result.vectors
            /\ directionRef' = effect.result.directionRef
            /\ windConfig' = effect.result.windConfig
            /\ windCall' = effect.config
    IN  /\ windUpdates < MaxSlides
        /\ ws # settings.windSettings
        /\ changed([settings EXCEPT !.windSettings = ws])
        /\ settingsOp' = [kind |-> "set", name |-> "windSettings", value |-> 0]
        /\ edits' = edits + 1
        /\ pushed(windEffect(vectors, directionRef, windConfig, ws))
        /\ windUpdates' = windUpdates + 1
        /\ UNCHANGED <<state, call, specs, gustPhase, steps, hidVars, normVars,
                       keyVars, stickVars, objVars, compassVars, connVars,
                       hudVars, wizVars, resetVars, subVars, padVars>>

NextGust ==
    \/ \E dt \in GustFrameTimes, time \in GustClockTimes :
          Step(0, <<0, 0, 0>>, dt, time)
    \/ \E ws \in GustSettings : SetWindSettings(ws)

SpecGust == InitGust /\ [][NextGust]_vars

\* whether calls of step advance the phase under the configuration
Gusty == windConfig.enabled /\ windConfig.gustStrength > 0
\* gustFrequency * 0.016
PhaseStep == FMul(windConfig.gustFrequency, 16)

\* C30: a call of step made while wind is enabled and gustStrength > 0
\* advances the gust phase by gustFrequency * 0.016 whatever dt and time it
\* is passed, and any other call leaves the phase as it was; so under
\* settings left alone the phase after n calls is n * gustFrequency * 0.016,
\* or 0 when the calls do not advance it.
C30_GustPhase ==
    /\ [][steps' = steps + 1 =>
             gustPhase' = IF Gusty THEN FAdd(gustPhase, PhaseStep) ELSE gustPhase]_vars
    /\ [](windUpdates = 0 =>
             gustPhase = IF Gusty THEN steps * PhaseStep ELSE 0)

\* C30 witness: a call that advanced the phase, the wind then switched off,
\* and a call that left the phase as it was
C30_Witness ==
    /\ steps = 2 /\ windUpdates = 1 /\ ~windConfig.enabled
    /\ call.valid /\ gustPhase > 0 /\ call.gustPhase = gustPhase

-----------------------------------------------------------------------------
(* Reset: App's handleReset and the Drone's reset effect, among frames,    *)
(* steps and changes of the wind and airframe settings                     *)

MaxResets == 2
\* frames the keyboard throttle is followed for
RampFrames == 3

\* mutant of resetEffect: the virtual throttle left as it was
resetEffectKeepThrottle(sticks) ==
    [state |-> createInitialState, sticks |-> sticks]

\* the Drone's reset effect: physicsState.current = createInitialState(),
\* virtualSticks.current.throttle = 0
resetEffect(sticks) ==
    [state |-> createInitialState, sticks |-> [sticks EXCEPT !.throttle = 0]]

\* App in KEYBOARD mode and the Drone mounted: the specs, wind and reset
\* effects have run
InitReset ==
    LET mounted(effect) ==
            /\ vectors = effect.result.vectors
            /\ directionRef = effect.result.directionRef
            /\ windConfig = effect.result.windConfig
            /\ windCall = effect.config
    IN  /\ HidIdle
        /\ NormIdle
        /\ IdleButWind
        /\ SettingsInMode("KEYBOARD")
        /\ mounted(windEffect(<<DEFAULT_WIND_CONFIG.direction>>, 1,
                              DEFAULT_WIND_CONFIG, settings.windSettings))
        /\ windUpdates = 0
        /\ state = resetEffect(virtualSticks).state
        /\ specs = createSpecsFromSettings(settings.dronePhysics)
        /\ gustPhase = 0
        /\ call = NoCall
        /\ steps = 0

\* handleReset: setResetSignal(s => s + 1); the Drone renders with the new
\* signal and its reset effect runs
HandleReset(keys) ==
    LET reset(effect) ==
            /\ state' = effect.state
            /\ virtualSticks' = effect.sticks
    IN  /\ resetSignal < MaxResets
        /\ resetSignal' = resetSignal + 1
        /\ reset(resetEffect(virtualSticks))
        /\ resetLog' = [done |-> TRUE, state |-> state,
                        throttle |-> virtualSticks.throttle]
        /\ rampFrames' = 0
        /\ activeKeys' = keys
        /\ UNCHANGED <<frameLog, frames, call, specs, windConfig, gustPhase, steps,
                       settingsVars, hidVars, normVars, stickVars, windVars, objVars,
                       compassVars, connVars, hudVars, wizVars, subVars, padVars>>

\* the R key pressed: App's keydown handler calls handleReset, the Drone's
\* adds the key's code to activeKeys
ResetKey == HandleReset(activeKeys \cup {"KeyR"})

\* the HUD's reset button: onReset = handleReset
ResetButton == HandleReset(activeKeys)

\* an airframe preset chosen: setDronePhysics, the persist effect, and the
\* Drone's specs effect, updateSpecs(createSpecsFromSettings(dronePhysics))
SelectAirframe(preset) ==
    LET changed(new) ==
            /\ settings' = new
            /\ localStorage' = persist(new)
            /\ before' = settings
            /\ specs' = [field \in DOMAIN specs |->
                            createSpecsFromSettings(new.dronePhysics)[field]]
    IN  /\ edits < MaxEdits
        /\ preset # settings.dronePhysics.preset
        /\ changed([settings EXCEPT !.dronePhysics = presetPhysics(preset)])
        /\ settingsOp' = [kind |-> "preset", name |-> preset, value |-> 0]
        /\ edits' = edits + 1
        /\ UNCHANGED <<state, call, windConfig, gustPhase, steps, hidVars,
                       normVars, extVars>>

NextReset ==
    \/ ResetKey
    \/ ResetButton
    \/ KeyDown("KeyW")
    \/ frames < RampFrames /\ Frame(KeyUnit \div 5)
    \/ Step(Unit, <<0, 0, 0>>, 16, 1500)
    \/ \E ws \in {[DEFAULT_WIND_SETTINGS EXCEPT !.enabled = TRUE, !.baseSpeed = 3000]} :
          SetWindSettings(ws)
    \/ \E preset \in {"WHOOP_65MM"} : SelectAirframe(preset)

SpecReset == InitReset /\ [][NextReset]_vars

\* C26: every change of the reset signal is an increase and leaves the
\* physics state the initial state and the keyboard virtual throttle 0,
\* whatever they were; and a change of the wind or airframe settings
\* without a reset leaves the physics state as it was.
C26_Reset ==
    [][/\ resetSignal' >= resetSignal
       /\ resetSignal' # resetSignal =>
              /\ state' = createInitialState
              /\ virtualSticks'.throttle = 0
       /\ (/\ resetSignal' = resetSignal
           /\ \/ settings'.windSettings # settings.windSettings
              \/ settings'.dronePhysics # settings.dronePhysics)
              => state' = state]_vars

\* C26 witness: a second reset that found the drone away from the initial
\* state with the throttle raised, after both kinds of settings change
C26_Witness ==
    /\ resetSignal = 2
    /\ resetLog.done
    /\ resetLog.state # createInitialState
    /\ resetLog.throttle > 0
    /\ state = createInitialState
    /\ virtualSticks.throttle = 0
    /\ windUpdates > 0
    /\ settings.dronePhysics.preset = "WHOOP_65MM"

-----------------------------------------------------------------------------
(* The WebHID service used freely: requestDevice, tryReconnect, disconnect,  *)
(* subscribe and unsubscribe in any order, calls overlapping at their        *)
(* awaits, and every open device sending input reports.  A device is the     *)
(* same HIDDevice object each time the browser hands it out, so a listener   *)
(* added to it stays until it is removed.                                    *)

\* what the service's actions leave alone
exceptServiceVars ==
    <<physVars, normVars, settingsVars, keyVars, stickVars, windVars, objVars,
      compassVars, hudVars, wizVars, resetVars, padVars>>

\* the reports a device sends here
ServiceReports == {CenterReport, Fill(16, 128)}

\* what getDevices() may resolve with
PairedDevices == {<<>>} \cup { <<device>> : device \in HidDevices }

\* a call entering the service
entered ==
    [NoHidCall EXCEPT !.seq = callsMade + 1,
                      !.before = status(service), !.after = status(service)]

\* disconnect's assignments after the await:
\* this.device = null; this._isConnected = false
disconnected(svc) == [svc EXCEPT !.device = 0, !.isConnected = FALSE]

InitService ==
    /\ PhysIdle
    /\ HidIdle
    /\ NormIdle
    /\ SettingsIdle
    /\ IdleButConn
    /\ service = [device |-> 0, isConnected |-> FALSE, isConnecting |-> FALSE]
    /\ opened = {}
    /\ inputListeners = [device \in HidDevices |-> 0]
    /\ hidCalls = [slot \in CallSlots |-> NoHidCall]
    /\ callsMade = 0
    /\ hasHid \in BOOLEAN

\* tryReconnect() up to its await of getDevices()
TryReconnect(slot) ==
    /\ callsMade < MaxCalls
    /\ hidCalls[slot].pc \in {"idle", "done"}
    /\ callsMade' = callsMade + 1
    /\ hidCalls' = [hidCalls EXCEPT ![slot] =
                       IF hasHid THEN [entered EXCEPT !.pc = "getDevices"]
                       ELSE settled(entered, "false", "noHid", service)]
    /\ UNCHANGED <<service, opened, inputListeners, hasHid, exceptConnVars>>

\* getDevices() resolves: no paired device returns false; otherwise
\* this.device = devices[0] and connect() runs as it does for requestDevice
DevicesResolve(slot, devices) ==
    LET inFlight == hidCalls[slot]
        chosen == [service EXCEPT !.device = devices[1]]
    IN  /\ inFlight.pc = "getDevices"
        /\ IF devices = <<>>
           THEN /\ hidCalls' = [hidCalls EXCEPT ![slot] =
                                   settled(inFlight, "false", "noDevice", service)]
                /\ UNCHANGED <<service, inputListeners>>
           ELSE IF service.isConnecting \/ service.isConnected
           THEN /\ service' = chosen
                /\ hidCalls' = [hidCalls EXCEPT ![slot] =
                                   settled(inFlight,
                                           IF service.isConnected THEN "true" ELSE "false",
                                           "busy", chosen)]
                /\ UNCHANGED inputListeners
           ELSE IF devices[1] \in opened
           THEN /\ service' = connectDone(chosen)
                /\ inputListeners' = [inputListeners EXCEPT ![devices[1]] = @ + 1]
                /\ hidCalls' = [hidCalls EXCEPT ![slot] =
                                   settled(inFlight, "true", "connected",
                                           connectDone(chosen))]
           ELSE /\ service' = [chosen EXCEPT !.isConnecting = TRUE]
                /\ hidCalls' = [hidCalls EXCEPT ![slot] =
                                   [inFlight EXCEPT !.pc = "open",
                                                    !.device = devices[1]]]
                /\ UNCHANGED inputListeners
        /\ UNCHANGED <<opened, callsMade, hasHid, exceptConnVars>>

\* getDevices() rejects: tryReconnect's catch, then return false
DevicesReject(slot) ==
    /\ hidCalls[slot].pc = "getDevices"
    /\ hidCalls' = [hidCalls EXCEPT ![slot] =
                       settled(hidCalls[slot], "false", "getDevicesRejected", service)]
    /\ UNCHANGED <<service, opened, inputListeners, callsMade, hasHid,
                   exceptConnVars>>

\* disconnect() up to its await of close(): without a device it is over at
\* once and nothing is assigned
Disconnect(slot) ==
    /\ callsMade < MaxCalls
    /\ hidCalls[slot].pc \in {"idle", "done"}
    /\ callsMade' = callsMade + 1
    /\ hidCalls' = [hidCalls EXCEPT ![slot] =
                       IF service.device = 0
                       THEN settled(entered, "void", "noDevice", service)
                       ELSE [entered EXCEPT !.pc = "close",
                                                          !.device = service.device]]
    /\ UNCHANGED <<service, opened, inputListeners, hasHid, exceptConnVars>>

\* close() is over, the device closed (closed = TRUE) or the close thrown
\* (closed = FALSE): either way the device, the flag and the channels are
\* cleared.  No listener is removed.
CloseSettles(slot, closed) ==
    LET inFlight == hidCalls[slot]
    IN  /\ inFlight.pc = "close"
        /\ opened' = IF closed THEN opened \ {inFlight.device} ELSE opened
        /\ service' = disconnected(service)
        /\ rawChannels' = <<0, 0, 0, 0, 0, 0, 0, 0>>
        /\ hidCalls' = [hidCalls EXCEPT ![slot] =
                           settled(inFlight, "void",
                                   IF closed THEN "closed" ELSE "closeFailed",
                                   disconnected(service))]
        /\ afterDisconnect' = [completed |-> TRUE, notified |-> 0]
        /\ UNCHANGED <<inputListeners, callsMade, hasHid, hidReport, notified,
                       reports, listeners, lastReport, exceptServiceVars>>

\* subscribe(listener): this.listeners.add(listener)
Subscribe(s) ==
    /\ s \notin listeners
    /\ listeners' = listeners \cup {s}
    /\ UNCHANGED <<lastReport, afterDisconnect, exceptSubVars>>

\* the function subscribe returned: this.listeners.delete(listener)
Unsubscribe(s) ==
    /\ s \in listeners
    /\ listeners' = listeners \ {s}
    /\ UNCHANGED <<lastReport, afterDisconnect, exceptSubVars>>

\* an open device sends an input report: every 'inputreport' listener added
\* to it runs handleInputReport, which decodes the report and calls every
\* subscribed callback
DeviceReport(device, data) ==
    LET handlers == inputListeners[device]
    IN  /\ reports < MaxReports
        /\ device \in opened
        /\ reports' = reports + 1
        /\ hidReport' = data
        /\ IF handlers = 0
           THEN UNCHANGED <<rawChannels, notified>>
           ELSE /\ rawChannels' = handleInputReport(data, rawChannels)
                /\ notified' = rawChannels'
        /\ lastReport' = [valid |-> TRUE, device |-> device, handlers |-> handlers,
                          subscribed |-> listeners,
                          invoked |-> [s \in Subscribers |->
                                          IF s \in listeners THEN handlers ELSE 0]]
        /\ afterDisconnect' =
               IF afterDisconnect.completed /\ ~service.isConnected
               THEN [afterDisconnect EXCEPT !.notified =
                        @ + handlers * Cardinality(listeners)]
               ELSE afterDisconnect
        /\ UNCHANGED <<listeners, connVars, exceptServiceVars>>

\* calls may start while earlier ones wait at an await
NextService ==
    \/ \E slot \in CallSlots : RequestDevice(slot)
    \/ \E slot \in CallSlots, devices \in PickerAnswers : PickerResolves(slot, devices)
    \/ \E slot \in CallSlots : PickerRejects(slot)
    \/ \E slot \in CallSlots : OpenResolves(slot)
    \/ \E slot \in CallSlots : OpenRejects(slot)
    \/ \E slot \in CallSlots : TryReconnect(slot)
    \/ \E slot \in CallSlots, devices \in PairedDevices : DevicesResolve(slot, devices)
    \/ \E slot \in CallSlots : DevicesReject(slot)
    \/ \E slot \in CallSlots : Disconnect(slot)
    \/ \E slot \in CallSlots, closed \in BOOLEAN : CloseSettles(slot, closed)
    \/ \E s \in Subscribers : Subscribe(s)
    \/ \E s \in Subscribers : Unsubscribe(s)
    \/ \E device \in HidDevices, data \in ServiceReports : DeviceReport(device, data)

SpecService == InitService /\ [][NextService]_vars

\* C22: an input report that reaches the service invokes every subscribed
\* callback exactly once and no other callback, whatever calls came before
C22_OneNotificationPerReport ==
    (lastReport.valid /\ lastReport.handlers >= 1) =>
        \A s \in Subscribers :
            lastReport.invoked[s] = IF s \in lastReport.subscribed THEN 1 ELSE 0

\* the causes of a call that was given a device and ran connect()
ConnectCauses == {"connected", "busy", "openFailed", "error"}

\* the calls in the slots are the last two made, both were given a device
\* and ran connect(), the later one entered while the earlier one awaited
\* open(), and both have settled
OverlapSettled ==
    /\ NoneInFlight
    /\ \A slot \in CallSlots : hidCalls[slot].cause \in ConnectCauses
    /\ \E early, late \in CallSlots :
          /\ hidCalls[late].seq = callsMade
          /\ hidCalls[early].seq = callsMade - 1
          /\ hidCalls[early].seq >= 1
          /\ hidCalls[late].before.isConnecting

\* C23: once overlapping connection calls have all settled, each one's
\* boolean equals isConnected
C23_OverlappingCallsAgree ==
    OverlapSettled =>
        \A slot \in CallSlots :
            (hidCalls[slot].result = "true") <=> service.isConnected

\* C24: while isConnected is true the device is set, open, and the one whose
\* reports run handleInputReport
C24_ConnectedMeansOpenDevice ==
    service.isConnected =>
        /\ service.device # 0
        /\ service.device \in opened
        /\ inputListeners[service.device] >= 1

\* C25: from a completed disconnect until a later connection succeeds the
\* channels are zeros and no subscriber is called
C25_QuietAfterDisconnect ==
    (afterDisconnect.completed /\ ~service.isConnected) =>
        /\ rawChannels = <<0, 0, 0, 0, 0, 0, 0, 0>>
        /\ afterDisconnect.notified = 0

-----------------------------------------------------------------------------
(* The two calibration wizards of the settings panel: opened from the panel, *)
(* the gamepad wizard polling navigator.getGamepads() on animation frames,   *)
(* the HID wizard fed by App's hidChannels; Capture Center, Back, Finish &   *)
(* Save and Cancel.                                                          *)

\* what neither wizard touches
exceptCalibrationVars ==
    <<physVars, hidVars, normVars, keyVars, stickVars, windVars, objVars,
      compassVars, connVars, resetVars, subVars>>

\* the axes a gamepad reports: sticks centred, roll right, throttle and yaw off
\* centre (axes 0..3; by default yaw 0, throttle 1, roll 2, pitch 3)
PadAxes ==
    { <<0, 0, 0, 0>>, <<0, 0, AxisUnit, 0>>, <<300, -AxisUnit, 0, 0>> }

\* what a slot of navigator.getGamepads() holds
PadSlots == {<<>>} \cup PadAxes

\* calibrations the wizard is opened on: the default one, and one with two
\* axes inverted in the panel
OpenCalibrations ==
    { DEFAULT_CALIBRATION,
      [DEFAULT_CALIBRATION EXCEPT !.roll.inverted = TRUE, !.yaw.inverted = TRUE] }

\* reports App receives while a wizard is open
CalibrationReports ==
    { <<0, 0, AxisUnit, 0, 0, 0, 0, 0>>, <<0, -AxisUnit, 0, 0, 0, 0, 0, 0>> }

\* navigator.getGamepads()[0] || navigator.getGamepads()[1]
firstGamepad(pads) == IF pads[1] # <<>> THEN pads[1] ELSE pads[2]

\* gp.axes[channelMap.axis] ?? 0
axesOf(gp, channelMap) ==
    [axis \in Axes |->
        IF channelMap[axis] + 1 \in DOMAIN gp THEN gp[channelMap[axis] + 1] ELSE 0]

\* mutant of padCapture: a capture of zeros when there is no gamepad
padCaptureZeros(cal, gp, channelMap) == captureCenter(cal, axesOf(gp, channelMap))

\* CalibrationModal.captureCenter, the calibration: if (!gp) return;
\* otherwise center, min and max of every axis set to the gamepad's value
padCapture(cal, gp, channelMap) ==
    IF gp = <<>> THEN cal ELSE captureCenter(cal, axesOf(gp, channelMap))

\* CalibrationModal.captureCenter, the step: setStep(2) unless it returned
padStep(current, gp) == IF gp = <<>> THEN current ELSE 2

\* mutant of updateAxis: the range moved to the reading instead of widened
updateAxisMoved(limits, rawVal) == [limits EXCEPT !.min = rawVal, !.max = rawVal]

\* updateLoop's updateAxis: min and max widened to the reading
updateAxis(limits, rawVal) ==
    [limits EXCEPT !.min = IF rawVal < @ THEN rawVal ELSE @,
                   !.max = IF rawVal > @ THEN rawVal ELSE @]

\* the wizards and the input mode whose Calibrate button opens each
WizardKinds == {"gamepad", "hid"}
modeOf(kind) == IF kind = "gamepad" THEN "GAMEPAD" ELSE "WEBHID"

\* the settings panel with one of the two wizards just opened from it, on a
\* loaded calibration: the wizard mounts with useState(1) and
\* useState(currentCalibration); no gamepad seen and no HID report received
InitCalibration ==
    /\ PhysIdle
    /\ HidIdle
    /\ NormIdle
    /\ KeyIdle
    /\ StickIdle
    /\ WindIdle
    /\ ObjIdle
    /\ CompassIdle
    /\ ConnIdle
    /\ ResetIdle
    /\ SubIdle
    /\ \E cal \in OpenCalibrations, kind \in WizardKinds :
          /\ settings = [loadSettings(NoItem) EXCEPT !.calibration = cal,
                                                     !.inputMode = modeOf(kind)]
          /\ calOpen = [kind |-> kind, calibration |-> cal]
    /\ before = settings
    /\ localStorage = persist(settings)
    /\ settingsOp = NoOp
    /\ edits = 0
    /\ controllerConnected = FALSE
    /\ hidConnected = FALSE
    /\ hud = render(settings.inputMode, FALSE, FALSE)
    /\ gamepads = <<<<>>, <<>>>>
    /\ padWizard = [shown |-> calOpen.kind = "gamepad", step |-> 1, saved |-> FALSE,
                    captured |-> FALSE]
    /\ padCal = settings.calibration
    /\ rawAxes = <<0, 0, 0, 0>>
    /\ padPress = NoPress
    /\ hidChannels = <<0, 0, 0, 0, 0, 0, 0, 0>>
    /\ wizard = [shown |-> calOpen.kind = "hid", step |-> 1, saved |-> FALSE]
    /\ tempCal = settings.calibration
    /\ intervalElapsed = -1
    /\ observed = [axis \in Axes |-> [min |-> 0, max |-> 0]]
    /\ quiet = 0

\* a gamepad plugged in, unplugged or moved; plugging and unplugging fire
\* App's gamepadconnected / gamepaddisconnected handlers
GamepadChange(slot, pad) ==
    LET present == pad # <<>>
    IN  /\ gamepads[slot] # pad
        /\ gamepads' = [gamepads EXCEPT ![slot] = pad]
        /\ IF (gamepads[slot] # <<>>) # present
           THEN /\ controllerConnected' = present
                /\ hud' = render(settings.inputMode, hidConnected, present)
           ELSE UNCHANGED <<controllerConnected, hud>>
        /\ UNCHANGED <<hidConnected, padWizard, padCal, rawAxes, padPress, calOpen,
                       settingsVars, wizVars, exceptCalibrationVars>>

\* updateLoop on an animation frame with a gamepad: setRawAxes, and in
\* step 2 setTempCal with every axis's range widened
AnimationFrame ==
    LET gp == firstGamepad(gamepads)
    IN  /\ padWizard.shown
        /\ gp # <<>>
        /\ rawAxes' = <<axesOf(gp, settings.channelMap).yaw,
                        axesOf(gp, settings.channelMap).throttle,
                        axesOf(gp, settings.channelMap).roll,
                        axesOf(gp, settings.channelMap).pitch>>
        /\ padCal' = IF padWizard.step = 2
                     THEN [axis \in Axes |->
                              updateAxis(padCal[axis],
                                         axesOf(gp, settings.channelMap)[axis])]
                     ELSE padCal
        /\ UNCHANGED <<gamepads, padWizard, padPress, calOpen, settingsVars,
                       hudVars, wizVars, exceptCalibrationVars>>

\* the gamepad wizard's Capture Center button
PadCaptureCenter ==
    LET gp == firstGamepad(gamepads)
    IN  /\ padWizard.shown
        /\ padWizard.step = 1
        /\ padCal' = padCapture(padCal, gp, settings.channelMap)
        /\ padWizard' = [padWizard EXCEPT !.step = padStep(@, gp),
                                          !.captured = @ \/ gp # <<>>]
        /\ padPress' = [pressed |-> TRUE, gamepad |-> gp # <<>>,
                        step |-> padStep(padWizard.step, gp),
                        stepBefore |-> padWizard.step,
                        cal |-> padCapture(padCal, gp, settings.channelMap),
                        calBefore |-> padCal]
        /\ UNCHANGED <<gamepads, rawAxes, calOpen, settingsVars, hudVars, wizVars,
                       exceptCalibrationVars>>

\* the gamepad wizard's Back button: setStep(1)
PadBack ==
    /\ padWizard.shown
    /\ padWizard.step = 2
    /\ padWizard' = [padWizard EXCEPT !.step = 1]
    /\ UNCHANGED <<gamepads, padCal, rawAxes, padPress, calOpen, settingsVars,
                   hudVars, wizVars, exceptCalibrationVars>>

\* the gamepad wizard's Finish & Save: onSave(tempCal), that is
\* setCalibration(tempCal) with its persist effect, and the wizard closed
PadFinish ==
    LET new == [settings EXCEPT !.calibration = padCal]
    IN  /\ padWizard.shown
        /\ padWizard.step = 2
        /\ settings' = new
        /\ localStorage' = persist(new)
        /\ before' = settings
        /\ settingsOp' = [kind |-> "set", name |-> "calibration", value |-> 0]
        /\ edits' = edits + 1
        /\ padWizard' = [padWizard EXCEPT !.shown = FALSE, !.saved = TRUE]
        /\ UNCHANGED <<gamepads, padCal, rawAxes, padPress, calOpen, hudVars,
                       wizVars, exceptCalibrationVars>>

\* the gamepad wizard's Cancel: onCancel, setShowCalibration(false)
PadCancel ==
    /\ padWizard.shown
    /\ padWizard.step = 1
    /\ padWizard' = [padWizard EXCEPT !.shown = FALSE]
    /\ UNCHANGED <<gamepads, padCal, rawAxes, padPress, calOpen, settingsVars,
                   hudVars, wizVars, exceptCalibrationVars>>

\* the HID wizard's Cancel: onCancel, setShowHIDCalibration(false)
Cancel ==
    /\ wizard.shown
    /\ wizard.step = 1
    /\ wizard' = [wizard EXCEPT !.shown = FALSE]
    /\ UNCHANGED <<hidChannels, tempCal, intervalElapsed, observed, quiet,
                   settingsVars, exceptWizVars>>

NextCalibration ==
    \/ \E slot \in {1, 2}, pad \in PadSlots : GamepadChange(slot, pad)
    \/ AnimationFrame
    \/ PadCaptureCenter
    \/ PadBack
    \/ PadFinish
    \/ PadCancel
    \/ \E channels \in CalibrationReports : HidChannels(channels)
    \/ Tick
    \/ CaptureCenter
    \/ Back
    \/ Finish
    \/ Cancel

SpecCalibration == InitCalibration /\ [][NextCalibration]_vars

\* the HID wizard's Capture Center pressed before any report was received:
\* every axis gets center = min = max = 0 and keeps its other fields
HidCaptureWithoutReport ==
    (wizard.shown /\ wizard.step = 1 /\ wizard'.step = 2 /\ ~hidConnected) =>
        \A axis \in Axes :
            tempCal'[axis] = [tempCal[axis] EXCEPT !.center = 0, !.min = 0, !.max = 0]

\* C21 as stated: Capture Center without a device sets center = min = max = 0
\* on all four axes and advances to step 2, in the gamepad wizard as in the
\* HID wizard
C21_CaptureCentersAtZero ==
    /\ [](padPress.pressed /\ ~padPress.gamepad =>
            /\ padPress.step = 2
            /\ \A axis \in Axes :
                  /\ padPress.cal[axis].center = 0
                  /\ padPress.cal[axis].min = 0
                  /\ padPress.cal[axis].max = 0)
    /\ [][HidCaptureWithoutReport]_vars

\* C21: in the HID wizard Capture Center pressed before any report was
\* received sets center = min = max = 0 on all four axes and advances to
\* step 2; in the gamepad wizard Capture Center pressed without a gamepad
\* changes nothing: the working calibration is kept and the wizard stays at
\* step 1
C21_CaptureWithoutDevice ==
    /\ [](padPress.pressed /\ ~padPress.gamepad =>
            /\ padPress.step = 1
            /\ padPress.step = padPress.stepBefore
            /\ padPress.cal = padPress.calBefore)
    /\ [][HidCaptureWithoutReport]_vars

\* the gamepad wizard's button was pressed after the gamepad was unplugged:
\* the wizard is at step 1 on the calibration it was opened with
C21_Witness ==
    /\ padPress.pressed
    /\ ~padPress.gamepad
    /\ ~controllerConnected
    /\ rawAxes # <<0, 0, 0, 0>>
    /\ padWizard.shown
    /\ padWizard.step = 1
    /\ padCal = calOpen.calibration
    /\ padCal.roll.min = -AxisUnit
    /\ padCal.roll.inverted

\* min <= center <= max on every axis
InRange(cal) ==
    \A axis \in Axes :
        cal[axis].min <= cal[axis].center /\ cal[axis].center <= cal[axis].max

\* every axis has the inverted flag the wizard was opened with
KeepsInverted(cal) ==
    \A axis \in Axes : cal[axis].inverted = calOpen.calibration[axis].inverted

\* C28: in both wizards the working calibration has min <= center <= max on
\* every axis and the inverted flags it was opened with, from Capture Center
\* on, through every auto-expansion, Back and re-capture; what Finish & Save
\* commits is that calibration; after Cancel the application's calibration
\* is the one the wizard was opened with
C28_WizardRange ==
    /\ [](padWizard.shown /\ padWizard.captured =>
            InRange(padCal) /\ KeepsInverted(padCal))
    /\ [](wizard.shown /\ wizard.step = 2 =>
            InRange(tempCal) /\ KeepsInverted(tempCal))
    /\ [][(wizard.shown /\ wizard'.shown /\ InRange(tempCal) /\ KeepsInverted(tempCal))
            => InRange(tempCal') /\ KeepsInverted(tempCal')]_vars
    /\ [](calOpen.kind = "gamepad" /\ padWizard.saved =>
            /\ settings.calibration = padCal
            /\ InRange(settings.calibration)
            /\ KeepsInverted(settings.calibration))
    /\ [](calOpen.kind = "hid" /\ wizard.saved =>
            /\ settings.calibration = tempCal
            /\ InRange(settings.calibration)
            /\ KeepsInverted(settings.calibration))
    /\ [](calOpen.kind = "gamepad" /\ ~padWizard.shown /\ ~padWizard.saved =>
            settings.calibration = calOpen.calibration)
    /\ [](calOpen.kind = "hid" /\ ~wizard.shown /\ ~wizard.saved =>
            settings.calibration = calOpen.calibration)

\* the gamepad wizard, opened on a calibration with roll inverted, is in
\* step 2 after a capture off centre and a widening of the roll range
C28_Witness ==
    /\ calOpen.kind = "gamepad"
    /\ padPress.pressed
    /\ padPress.gamepad
    /\ padWizard.shown
    /\ padWizard.step = 2
    /\ padCal.yaw.center = 300
    /\ padCal.yaw.min = 0
    /\ padCal.roll.max = AxisUnit
    /\ padCal.roll.center = 0
    /\ padCal.roll.inverted

=============================================================================
